---- MODULE Spec2Model ----
(***************************************************************************)
(* Verification model of the Go2 linear-path control programs.             *)
(*                                                                         *)
(*   go2_gait_simulation.py   PathController and the PyBullet loop         *)
(*   go2_gait.py              the hardware loop on Go2RealRobot            *)
(*   go2control_system.py     UnifiedGo2Controller on the Unity controller *)
(*                                                                         *)
(* Units.  Distances and positions are integers counted in half metres,    *)
(* speeds are integers counted in 1/15 m/s.  On that grid every value the  *)
(* six speed modes produce is exact: 1.0 + (d/15.0)*2.0 with d = n/2 m is  *)
(* (15 + n)/15 m/s.  Positions move along one axis, so the planar distance *)
(* sqrt(dx^2 + dy^2) of the source is |dx|.                                *)
(* The velocity limits of set_base_velocity and the state of the unified   *)
(* controller have grids of their own, given where they are defined.       *)
(***************************************************************************)
EXTENDS Integers, Sequences, FiniteSets, TLC

VARIABLES
    pc,                 \* main thread: "start", "loop", "estop", "finally", "done"
    robot,              \* the Go2RealRobot object exists (robot is not None)
    exitCause,          \* what ended the loop: "none", "KeyboardInterrupt", "Exception"
    is_connected,       \* Go2RealRobot.is_connected
    stale,              \* consecutive monitor iterations in which Read() returned nothing
    position,           \* robot position along the path axis
    key_events,         \* KeyboardInput.key_events (hardware) / keys of this tick
    listener,           \* keyboard listener thread: "off", "running", "dead"
    ctrlc,              \* the listener has read byte 0x03
    is_walking,
    path_mode,
    start_time,         \* start_time is not None
    initial_pos,
    current_speed_mode,
    gaze_enabled,
    was_stopped,
    cmd_stale,          \* current_time - last_cmd_time > 0.5 at the next tick
    pub_fails,          \* consecutive cmd_publisher.Write calls of the loop that raised
    tick,               \* record of the main thread's last step
    lastCmd,            \* last command passed to set_base_velocity
    exitCmds,           \* commands passed after the loop ended
    exitNonzero,        \* one of them was not the zero command
    fn_mode, fn_d, fn_out,  \* input and output of an isolated get_speed call
    vel,                \* request and result of an isolated set_base_velocity call
    is_moving,          \* controller.current_state.is_moving
    is_running,         \* UnifiedGo2Controller.is_running
    distance_traveled,  \* controller.current_state.distance_traveled
    orientation,        \* controller.current_state.orientation
    gaze_angle,         \* UnifiedGo2Controller.gaze_angle
    path_planner,       \* "straight" or "adaptive"
    update_threads,     \* live threads running _update_loop
    sent,               \* last command sent to Unity: "none", "zero", "move"
    yaw_error,          \* yaw_error of the last command of _update_loop
    reached,            \* an update() found distance_traveled >= path_length
    last_op,            \* the last operation on the unified controller
    speed,              \* UnifiedGo2Controller.speed
    movement_mode,      \* UnifiedGo2Controller.movement_mode
    state_mode,         \* controller.current_state.mode
    threads,            \* the threads running _update_loop, by number
    update_thread,      \* the thread self.update_thread refers to, 0 for none
    sent_cmd,           \* fields of the last command sent
    gk,                 \* a get_keys call in progress and the key codes recorded so far
    cli,                \* the Go2Controller of pyCLI.py and the commands it sent
    trial,              \* the TrialRunner of protocolManager.py and its controller calls
    sdk                 \* the Go2RobotController of unitree_legged_sdk.py

vars == << pc, robot, exitCause, is_connected, stale, position, key_events,
           listener, ctrlc, is_walking, path_mode, start_time, initial_pos,
           current_speed_mode, gaze_enabled, was_stopped, cmd_stale, pub_fails, tick, lastCmd,
           exitCmds, exitNonzero, fn_mode, fn_d, fn_out, vel, is_moving,
           is_running, distance_traveled, orientation, gaze_angle, path_planner,
           update_threads, sent, yaw_error, reached, last_op, speed,
           movement_mode, state_mode, threads, update_thread, sent_cmd,
           gk, cli, trial, sdk >>

loopVars == << is_walking, path_mode, start_time, initial_pos, current_speed_mode,
               gaze_enabled, was_stopped >>
hwVars   == << pc, robot, exitCause, is_connected, stale, listener, ctrlc,
               cmd_stale, pub_fails, exitCmds, exitNonzero >>
cmdVars  == << tick, lastCmd >>
fnVars   == << fn_mode, fn_d, fn_out >>
velVars  == << vel >>
ctlVars  == << is_moving, is_running, distance_traveled, orientation, gaze_angle,
               path_planner, update_threads, sent, yaw_error, reached, last_op,
               speed, movement_mode, state_mode, threads, update_thread,
               sent_cmd >>
auxVars  == << gk, cli, trial, sdk >>
\* what the unified controller does not touch
otherVars == << robot, exitCause, stale, position, key_events, listener, ctrlc,
                loopVars, cmd_stale, pub_fails, cmdVars, exitCmds, exitNonzero,
                fnVars, velVars, auxVars >>

----------------------------------------------------------------------------
(* Program constants, in the units above.                                  *)

PathLength == 30        \* path_length = 15.0
AbruptAt   == 16        \* the 8.0 breakpoint
ResumeAt   == 17        \* the 8.5 breakpoint
SpeedOne   == 15        \* 1.0 m/s
SpeedThree == 45        \* 3.0 m/s
NumModes   == 6         \* len(speed_modes)
EStopCount == 10        \* range(10) in emergency_stop

(* Bounds of the model.                                                    *)

MaxPos     == 34        \* positions range over 0..MaxPos
MaxStep    == 2         \* largest displacement of one physics step
MaxHwPos   == 1         \* positions the hardware state messages report
MaxStale   == 2         \* cap of the stale counter
MaxFails   == 3         \* cap of the counter of failed Write calls
MinDist    == 0 - 4     \* get_speed inputs range over MinDist..MaxDist
MaxDist    == 50
MaxLinReq  == 8         \* requested linear components range over -MaxLinReq..MaxLinReq
MaxAngReq  == 10        \* requested yaw rates are AngStep * (-MaxAngReq..MaxAngReq)
MaxCtlDist == 10        \* distance_traveled of the controller ranges over 0..MaxCtlDist
MaxOrient  == 6         \* its orientation ranges over -MaxOrient..MaxOrient
MaxGazeReq == 2         \* set_gaze requests are 90 degrees times -MaxGazeReq..MaxGazeReq
MaxThreads == 2         \* update threads alive at one time
MaxSpeedReq == 25       \* set_speed requests, in 0.1 m/s, are -MaxSpeedReq, 0 and MaxSpeedReq
MaxKeyPos  == 3         \* positions of the loop observed for its key handling
MaxCliSpeedReq == 25    \* speeds typed at the go2> prompt, in 0.1 m/s, reach MaxCliSpeedReq
MaxCliGazeReq == 7      \* gaze angles typed there are 15 degrees times -MaxCliGazeReq..MaxCliGazeReq
MaxSdkSends == 2        \* iterations of the 100 Hz loop of one move of Go2RobotController
MaxSdkReq  == 2         \* its distances, speeds and gaze angles range over -1..MaxSdkReq

Keys  == {"space", "p", "s", "g", "r"}
NoCmd == [vx |-> 0, vy |-> 0, wz |-> 0, none |-> TRUE]
Zero  == [vx |-> 0, vy |-> 0, wz |-> 0, none |-> FALSE]
Cmd(x, y, w) == [vx |-> x, vy |-> y, wz |-> w, none |-> FALSE]
IsZero(c) == c = Zero
NoTick == [kind |-> "none", w0 |-> FALSE, w1 |-> FALSE, d |-> 0, s |-> 0,
           pm |-> "leftward", ev |-> "none", cmds |-> << >>]

Abs(x) == IF x < 0 THEN 0 - x ELSE x
Min(a, b) == IF a < b THEN a ELSE b
Max(a, b) == IF a > b THEN a ELSE b

\* max(lo, min(hi, v))
Clamp(lo, hi, v) == Max(lo, Min(hi, v))

InitLoopVars ==
    /\ is_walking = FALSE /\ path_mode = "leftward" /\ start_time = FALSE
    /\ initial_pos = 0 /\ current_speed_mode = 0 /\ gaze_enabled = FALSE
    /\ was_stopped = FALSE
InitCmdVars == tick = NoTick /\ lastCmd = NoCmd

\* no set_base_velocity call is being examined
NoVel == [x |-> 0, y |-> 0, w |-> 0, pm |-> "forward", yaw |-> 0,
          err |-> 0, corr |-> 0, out |-> NoCmd, step |-> "idle"]
InitVelIdle == vel = NoVel

\* KeyboardInput.__init__, lines 63-66: key_events = {}; no get_keys call yet
NoGetKeys == [at |-> "idle", keys |-> {}, owed |-> {}, result |-> {}]

\* the objects of pyCLI.py, protocolManager.py and unitree_legged_sdk.py
\* before they are constructed
NoCli   == [at |-> "none"]
NoTrial == [at |-> "none"]
NoSdk   == [at |-> "none"]
InitAuxIdle == gk = NoGetKeys /\ cli = NoCli /\ trial = NoTrial /\ sdk = NoSdk

SpeedInit == 5          \* self.speed = 0.5, in 0.1 m/s

\* an update thread: not running, at the head of `while self.is_running`, or
\* past the is_moving test of line 456 holding the command it is about to send
NoThread == [at |-> "none", vmode |-> "none"]
AtTop    == [at |-> "top", vmode |-> "none"]
ThreadIds == 1..MaxThreads

\* UnifiedGo2Controller.__init__, lines 399-402, and RobotControllerBase.__init__
InitCtlThreads ==
    /\ speed = SpeedInit /\ movement_mode = "forward" /\ state_mode = "forward"
    /\ threads = [i \in ThreadIds |-> NoThread] /\ update_thread = 0
    /\ sent_cmd = [vmode |-> "none", smode |-> "forward", speed |-> SpeedInit,
                   gaze |-> 0]

\* RobotControllerBase.__init__ and UnifiedGo2Controller.__init__
InitCtlIdle ==
    /\ is_moving = FALSE /\ is_running = FALSE /\ distance_traveled = 0
    /\ orientation = 0 /\ gaze_angle = 0 /\ path_planner = "straight"
    /\ update_threads = 0 /\ sent = "none" /\ yaw_error = 0
    /\ reached = FALSE /\ last_op = "none"
    /\ InitCtlThreads

----------------------------------------------------------------------------
(* PathController                                                          *)

speed_modes == << "1-3_gradual", "3-1_gradual", "1-3_abrupt", "3-1_abrupt",
                  "1_stop_1", "3_stop_3" >>

\* get_speed with the stop band of the stop modes closed at 8.5 instead of open
get_speed_wide_stop(m, d) ==
    LET mode == speed_modes[m + 1] IN
    CASE mode = "1-3_gradual" -> SpeedOne + (d * 2 * SpeedOne) \div PathLength
      [] mode = "3-1_gradual" -> SpeedThree - (d * 2 * SpeedOne) \div PathLength
      [] mode = "1-3_abrupt"  -> IF d < AbruptAt THEN SpeedOne ELSE SpeedThree
      [] mode = "3-1_abrupt"  -> IF d < AbruptAt THEN SpeedThree ELSE SpeedOne
      [] mode = "1_stop_1"    -> IF d < AbruptAt THEN SpeedOne
                                 ELSE IF d <= ResumeAt THEN 0 ELSE SpeedOne
      [] mode = "3_stop_3"    -> IF d < AbruptAt THEN SpeedThree
                                 ELSE IF d <= ResumeAt THEN 0 ELSE SpeedThree
      [] OTHER                -> SpeedOne

\* get_speed(distance_traveled) with current_speed_mode = m (0-based)
get_speed(m, d) ==
    LET mode == speed_modes[m + 1] IN
    CASE mode = "1-3_gradual" -> SpeedOne + (d * 2 * SpeedOne) \div PathLength
      [] mode = "3-1_gradual" -> SpeedThree - (d * 2 * SpeedOne) \div PathLength
      [] mode = "1-3_abrupt"  -> IF d < AbruptAt THEN SpeedOne ELSE SpeedThree
      [] mode = "3-1_abrupt"  -> IF d < AbruptAt THEN SpeedThree ELSE SpeedOne
      [] mode = "1_stop_1"    -> IF d < AbruptAt THEN SpeedOne
                                 ELSE IF d < ResumeAt THEN 0 ELSE SpeedOne
      [] mode = "3_stop_3"    -> IF d < AbruptAt THEN SpeedThree
                                 ELSE IF d < ResumeAt THEN 0 ELSE SpeedThree
      [] OTHER                -> SpeedOne

----------------------------------------------------------------------------
(* An isolated call of get_speed on chosen inputs.                         *)

InitFn ==
    /\ fn_mode \in 0..(NumModes - 1)
    /\ fn_d \in MinDist..MaxDist
    /\ fn_out = -1
    /\ pc = "fn" /\ robot = FALSE /\ exitCause = "none"
    /\ is_connected = FALSE /\ stale = 0 /\ position = 0 /\ key_events = {}
    /\ listener = "off" /\ ctrlc = FALSE /\ is_walking = FALSE
    /\ path_mode = "leftward" /\ start_time = FALSE /\ initial_pos = 0
    /\ current_speed_mode = fn_mode /\ gaze_enabled = FALSE /\ was_stopped = FALSE
    /\ cmd_stale = FALSE /\ pub_fails = 0 /\ tick = NoTick /\ lastCmd = NoCmd
    /\ exitCmds = 0 /\ exitNonzero = FALSE
    /\ InitVelIdle /\ InitCtlIdle /\ InitAuxIdle

FnCall ==
    /\ pc = "fn"
    /\ fn_out' = get_speed(current_speed_mode, fn_d)
    /\ pc' = "fn_done"
    /\ UNCHANGED << robot, exitCause, is_connected, stale, position,
                    key_events, listener, ctrlc, loopVars, cmd_stale, pub_fails, cmdVars,
                    exitCmds, exitNonzero, fn_mode, fn_d, velVars,
                    ctlVars, auxVars >>

NextFn == FnCall
SpecFn == InitFn /\ [][NextFn]_vars

----------------------------------------------------------------------------
(* Go2RealRobot.set_base_velocity and the yaw correction of the hardware   *)
(* loop, called on chosen inputs.  Linear components are counted in        *)
(* 0.5 m/s, yaw rates in 1/1000 rad/s and yaw angles in pi/4 rad.          *)

MaxLinear  == 7         \* max_linear_speed = 3.5
MaxAngular == 2000      \* max_angular_speed = 2.0
YawLimit   == 500       \* the bound 0.5 of yaw_correction
EighthPi   == 393       \* pi/4 rad times the gain 0.5, in 1/1000 rad/s
HalfTurn   == 4         \* pi, in units of pi/4
AngStep    == 250       \* spacing of the requested yaw rates

\* set_base_velocity that writes the requested yaw rate as it is
set_base_velocity_raw_yaw(lin, ang) ==
    Cmd(Clamp(0 - MaxLinear, MaxLinear, lin[1]),
        Clamp(0 - MaxLinear, MaxLinear, lin[2]),
        ang[3])

\* the command set_base_velocity writes for a request, lines 189-206
set_base_velocity(lin, ang) ==
    Cmd(Clamp(0 - MaxLinear, MaxLinear, lin[1]),
        Clamp(0 - MaxLinear, MaxLinear, lin[2]),
        Clamp(0 - MaxAngular, MaxAngular, ang[3]))

\* yaw_error of the hardware loop, lines 411 and 419-420
HwYawError(pm, yaw) ==
    IF pm = "forward" THEN 0 - yaw ELSE (HalfTurn \div 2) - yaw

\* yaw_correction = max(-0.5, min(0.5, yaw_error * 0.5)), lines 412 and 421
yaw_correction(err) == Clamp(0 - YawLimit, YawLimit, err * EighthPi)

InitVel ==
    /\ \E x \in (0 - MaxLinReq)..MaxLinReq, y \in (0 - MaxLinReq)..MaxLinReq,
          k \in (0 - MaxAngReq)..MaxAngReq, pm \in {"forward", "leftward"},
          yaw \in (1 - HalfTurn)..HalfTurn :
          /\ (x = 0 /\ y = 0 /\ k = 0) \/ (pm = "forward" /\ yaw = 0)
          /\ vel = [NoVel EXCEPT !.x = x, !.y = y, !.w = k * AngStep, !.pm = pm,
                                 !.yaw = yaw, !.step = "req"]
    /\ pc = "vel" /\ robot = TRUE /\ exitCause = "none"
    /\ is_connected = TRUE /\ stale = 0 /\ position = 0 /\ key_events = {}
    /\ listener = "off" /\ ctrlc = FALSE /\ cmd_stale = FALSE /\ pub_fails = 0
    /\ exitCmds = 0 /\ exitNonzero = FALSE
    /\ InitLoopVars /\ InitCmdVars
    /\ fn_mode = 0 /\ fn_d = 0 /\ fn_out = -1
    /\ InitCtlIdle /\ InitAuxIdle

\* lines 411-412 / 419-421 on the chosen path mode and yaw
YawCall ==
    /\ vel.step = "req"
    /\ vel' = [vel EXCEPT !.err = HwYawError(vel.pm, vel.yaw),
                          !.corr = yaw_correction(HwYawError(vel.pm, vel.yaw)),
                          !.step = "corrected"]
    /\ UNCHANGED << pc, robot, exitCause, is_connected, stale, position,
                    key_events, listener, ctrlc, loopVars, cmd_stale, pub_fails, cmdVars,
                    exitCmds, exitNonzero, fnVars, ctlVars, auxVars >>

\* set_base_velocity on the request, or on the yaw correction just computed
VelCall ==
    /\ vel.step \in {"req", "corrected"}
    /\ LET w == IF vel.step = "corrected" THEN vel.w + vel.corr ELSE vel.w
       IN  vel' = [vel EXCEPT
                      !.out = set_base_velocity(<< vel.x, vel.y, 0 >>, << 0, 0, w >>),
                      !.step = "written"]
    /\ UNCHANGED << pc, robot, exitCause, is_connected, stale, position,
                    key_events, listener, ctrlc, loopVars, cmd_stale, pub_fails, cmdVars,
                    exitCmds, exitNonzero, fnVars, ctlVars, auxVars >>

NextVel == YawCall \/ VelCall
SpecVel == InitVel /\ [][NextVel]_vars

----------------------------------------------------------------------------
(* go2control_system.py: UnifiedGo2Controller in simulation mode, after a  *)
(* successful connect().  Distances and angles are integers on a grid of   *)
(* points and gaps: the even number 2n is the value n * 2.5 m (n * 90      *)
(* degrees), the odd number 2n + 1 is any value strictly between 2n and    *)
(* 2n + 2.  Order, the difference of a point and any value, and the tests  *)
(* against points are exact on that grid.  Status messages and set_gaze    *)
(* requests carry points; one update() changes a value by less than the    *)
(* width of a gap (0.02 m of sway, a tenth of the yaw difference, 5        *)
(* degrees of head motion).  Speeds are integers counted in 0.1 m/s.       *)
(* In SpecCtl every call and every iteration of the update loop runs       *)
(* without another thread in between; SpecThr interleaves them.            *)

PlannerPathLength == 8  \* path_length = 10.0
SpeedMin  == 1          \* 0.1 m/s, speeds of the unified controller in 0.1 m/s
SpeedMax  == 20         \* 2.0 m/s
GazeMax           == 2  \* the bound 90 of set_gaze
HalfTurnDeg       == 4  \* 180 degrees

\* the two while loops of calculate_orientation, lines 81-84
RECURSIVE NormalizeDiff(_)
NormalizeDiff(x) ==
    IF x > HalfTurnDeg THEN NormalizeDiff(x - 2 * HalfTurnDeg)
    ELSE IF x < 0 - HalfTurnDeg THEN NormalizeDiff(x + 2 * HalfTurnDeg)
    ELSE x

Sign(x) == IF x > 0 THEN 1 ELSE IF x < 0 THEN 0 - 1 ELSE 0

\* a value that is no grid point
InGap(v) == v % 2 = 1

\* calculate_orientation: current_yaw + yaw_diff * 0.1 leaves a point for the
\* gap on the side of the target (by 9 or 18 degrees) and may leave a gap on
\* that side; the adaptive planner adds a head motion of up to 5 degrees
\* either way, which moves a yaw off a point or across one
Orientations(planner, o, g) ==
    LET sg == Sign(NormalizeDiff(g - o)) IN
    IF planner = "adaptive"
    THEN IF InGap(o) THEN (o - 2)..(o + 2)
         ELSE IF sg = 0 THEN (o - 1)..(o + 1) ELSE { o + sg }
    ELSE IF InGap(o) THEN { o, o + sg, o + 2 * sg } ELSE { o + sg }

\* distance_delta of one update(): current_state.velocity is 0 from
\* construction on and nothing assigns it, so StraightPathPlanner returns the
\* position it was given; AdaptivePathPlanner adds its sway to that, a
\* displacement of at most 0.02 m
PlannerDeltas(planner, d) ==
    IF planner = "adaptive" THEN (IF InGap(d) THEN {0, 1, 2} ELSE {0, 1}) ELSE {0}

\* the end-of-path branch of update(), lines 182-183: self.stop_movement() is
\* not defined on RobotControllerBase or UnitySimulationController, so the
\* call raises AttributeError and is_moving keeps its value
PathEnd(moving, d) ==
    [raises |-> moving /\ d >= PlannerPathLength, moving |-> moving]

\* the main thread of a program that uses the unified controller: "ctl" between
\* calls, inside stop()/reset()/disconnect() at the join of line 433, between
\* the two assignments of set_mode, between stop() and controller.disconnect()
\* in disconnect(), and after disconnect()
MainPcs == {"ctl", "join_stop", "join_reset", "join_disconnect", "set_mode",
            "closing", "closed"}

\* a stop whose command keeps the forward velocity
StopVelocityKept == "forward"

\* stop(), line 436: send_movement_command((0, 0, 0), 0)
StopVelocity == "none"

\* the velocity of a command: (0, 0, 0), (0, 0, speed) or (speed, 0, 0)
CommandKind(vmode) == IF vmode = "none" THEN "zero" ELSE "move"

\* UnitySimulationController.send_movement_command, lines 243-261: without a
\* connection nothing is sent; the message carries the velocity it was given
\* and target_speed, current_state.mode and target_gaze as they are at the
\* call.  target_speed and target_gaze are written together with self.speed
\* and self.gaze_angle (lines 416-417, 472-473, 485-486) and equal them.
\* RealGo2Controller.send_movement_command, lines 352-363, stores the velocity
\* in self.cmd, which _control_loop sends from then on.
Send(vmode) ==
    IF is_connected
    THEN /\ sent' = CommandKind(vmode)
         /\ sent_cmd' = [vmode |-> vmode, smode |-> state_mode,
                         speed |-> speed, gaze |-> gaze_angle]
    ELSE UNCHANGED << sent, sent_cmd >>

\* start(), lines 413-426: the new thread becomes self.update_thread
Start ==
    /\ pc = "ctl"
    /\ update_threads < MaxThreads
    /\ LET i == CHOOSE j \in ThreadIds :
                  /\ threads[j].at = "none"
                  /\ \A k \in ThreadIds : threads[k].at = "none" => j <= k
       IN  /\ threads' = [threads EXCEPT ![i] = AtTop]
           /\ update_thread' = i
    /\ is_moving' = TRUE
    /\ state_mode' = movement_mode
    /\ is_running' = TRUE
    /\ update_threads' = update_threads + 1
    /\ reached' = FALSE
    /\ last_op' = "start"
    /\ UNCHANGED << distance_traveled, orientation, gaze_angle, path_planner,
                    sent, yaw_error, speed, movement_mode, sent_cmd >>
    /\ UNCHANGED << pc, is_connected, otherVars >>

\* stop(), lines 428-431, as called directly (why = "stop"), from reset()
\* (line 441) or from disconnect() (line 410): the flags are cleared and the
\* caller waits in join for the thread self.update_thread refers to
StopBegin(why) ==
    /\ pc = "ctl"
    /\ is_moving' = FALSE
    /\ is_running' = FALSE
    /\ pc' = why
    /\ last_op' = "call"
    /\ UNCHANGED << distance_traveled, orientation, gaze_angle, path_planner,
                    update_threads, sent, yaw_error, reached, speed,
                    movement_mode, state_mode, threads, update_thread, sent_cmd >>
    /\ UNCHANGED << is_connected, otherVars >>

StopCall == StopBegin("join_stop")
ResetCall == StopBegin("join_reset")
Disconnect == StopBegin("join_disconnect")

\* stop() and reset() with no other thread running during the call but the
\* joined one: the thread self.update_thread refers to, if alive, finds
\* is_running false and ends, join returns and the stop command is sent
Stopped(op) ==
    LET alive == IF update_thread = 0 THEN FALSE
                 ELSE threads[update_thread].at # "none"
    IN  /\ pc = "ctl"
        /\ is_moving' = FALSE
        /\ is_running' = FALSE
        /\ threads' = IF alive THEN [threads EXCEPT ![update_thread] = NoThread]
                      ELSE threads
        /\ update_threads' = IF alive THEN update_threads - 1 ELSE update_threads
        /\ Send(StopVelocity)
        /\ orientation' = IF op = "reset" THEN 0 ELSE orientation
        /\ distance_traveled' = IF op = "reset" THEN 0 ELSE distance_traveled
        /\ reached' = IF op = "reset" THEN FALSE ELSE reached
        /\ last_op' = op
        /\ UNCHANGED << gaze_angle, path_planner, yaw_error, speed,
                        movement_mode, state_mode, update_thread >>
        /\ UNCHANGED << pc, is_connected, otherVars >>

Stop == Stopped("stop")
Reset == Stopped("reset")

\* stop(), lines 432-437: join returns once that thread has ended (at once
\* when there is none), then the stop command is sent; reset() goes on to
\* lines 442-444
StopEnd ==
    /\ pc \in {"join_stop", "join_reset", "join_disconnect"}
    /\ (IF update_thread = 0 THEN TRUE ELSE threads[update_thread].at = "none")
    /\ Send(StopVelocity)
    /\ orientation' = IF pc = "join_reset" THEN 0 ELSE orientation
    /\ distance_traveled' = IF pc = "join_reset" THEN 0 ELSE distance_traveled
    /\ reached' = IF pc = "join_reset" THEN FALSE ELSE reached
    /\ pc' = IF pc = "join_disconnect" THEN "closing" ELSE "ctl"
    /\ last_op' = IF pc = "join_stop" THEN "stop"
                  ELSE IF pc = "join_reset" THEN "reset" ELSE "disconnect"
    /\ UNCHANGED << is_moving, is_running, gaze_angle, path_planner,
                    update_threads, yaw_error, speed, movement_mode, state_mode,
                    threads, update_thread >>
    /\ UNCHANGED << is_connected, otherVars >>

\* controller.disconnect() at the end of disconnect(), lines 217-225 (313-324
\* on the real robot): is_connected is cleared and the sockets are closed
Close ==
    /\ pc = "closing"
    /\ is_connected' = FALSE
    /\ pc' = "closed"
    /\ last_op' = "close"
    /\ UNCHANGED << is_moving, is_running, distance_traveled, orientation,
                    gaze_angle, path_planner, update_threads, sent, yaw_error,
                    reached, speed, movement_mode, state_mode, threads,
                    update_thread, sent_cmd >>
    /\ UNCHANGED otherVars

\* a set_speed that stores its argument
set_speed_raw(v) == v

\* set_speed, line 472: max(0.1, min(2.0, speed))
set_speed(v) == Clamp(SpeedMin, SpeedMax, v)

\* set_speed(speed), lines 470-474
SetSpeed(v) ==
    /\ pc = "ctl"
    /\ speed' = set_speed(v)
    /\ last_op' = "speed"
    /\ UNCHANGED << is_moving, is_running, distance_traveled, orientation,
                    gaze_angle, path_planner, update_threads, sent, yaw_error,
                    reached, movement_mode, state_mode, threads, update_thread,
                    sent_cmd >>
    /\ UNCHANGED << pc, is_connected, otherVars >>

\* set_gaze, line 485: max(-90, min(90, angle))
set_gaze(a) == Clamp(0 - GazeMax, GazeMax, a)

\* set_gaze(angle), lines 483-487
SetGaze(a) ==
    /\ pc = "ctl"
    /\ gaze_angle' = set_gaze(a)
    /\ last_op' = "gaze"
    /\ UNCHANGED << is_moving, is_running, distance_traveled, orientation,
                    path_planner, update_threads, sent, yaw_error, reached,
                    speed, movement_mode, state_mode, threads, update_thread,
                    sent_cmd >>
    /\ UNCHANGED << pc, is_connected, otherVars >>

\* set_mode(mode), lines 476-479: self.movement_mode = mode
SetModeBegin(m) ==
    /\ pc = "ctl"
    /\ m \in {"forward", "rightward"}
    /\ movement_mode' = m
    /\ pc' = "set_mode"
    /\ last_op' = "call"
    /\ UNCHANGED << is_moving, is_running, distance_traveled, orientation,
                    gaze_angle, path_planner, update_threads, sent, yaw_error,
                    reached, speed, state_mode, threads, update_thread,
                    sent_cmd >>
    /\ UNCHANGED << is_connected, otherVars >>

\* set_mode(mode), line 480: self.controller.current_state.mode = mode
SetModeEnd ==
    /\ pc = "set_mode"
    /\ state_mode' = movement_mode
    /\ pc' = "ctl"
    /\ last_op' = "mode"
    /\ UNCHANGED << is_moving, is_running, distance_traveled, orientation,
                    gaze_angle, path_planner, update_threads, sent, yaw_error,
                    reached, speed, movement_mode, threads, update_thread,
                    sent_cmd >>
    /\ UNCHANGED << is_connected, otherVars >>

\* one status message in UnitySimulationController._receive_loop, lines
\* 227-241; a field the message lacks reads as 0
ReceiveStatus(d, o) ==
    /\ pc \in MainPcs /\ is_connected
    /\ distance_traveled' = d
    /\ orientation' = o
    /\ last_op' = "status"
    /\ UNCHANGED << is_moving, is_running, gaze_angle, path_planner,
                    update_threads, sent, yaw_error, reached, speed,
                    movement_mode, state_mode, threads, update_thread, sent_cmd >>
    /\ UNCHANGED << pc, is_connected, otherVars >>

\* update(dt), lines 163-183, in thread i with the planner results delta and
\* o1; a thread in which stop_movement() raised has ended
Update(i, delta, o1) ==
    LET d1  == IF is_moving THEN distance_traveled + delta ELSE distance_traveled
        end == PathEnd(is_moving, d1)
    IN  /\ pc \in MainPcs
        /\ threads[i].at = "top" /\ is_running
        /\ d1 <= MaxCtlDist
        /\ o1 \in (0 - MaxOrient)..MaxOrient
        /\ distance_traveled' = d1
        /\ orientation' = o1
        /\ is_moving' = end.moving
        /\ reached' = (reached \/ (is_moving /\ d1 >= PlannerPathLength))
        /\ update_threads' = IF end.raises THEN update_threads - 1 ELSE update_threads
        /\ last_op' = "update"
        /\ UNCHANGED << is_running, gaze_angle, path_planner, speed,
                        movement_mode, state_mode, update_thread >>
        /\ UNCHANGED << pc, is_connected, otherVars >>

\* one iteration of `while self.is_running` in _update_loop, lines 451-468,
\* during which no other thread runs
UpdateIter(i, delta, o1) ==
    LET d1  == IF is_moving THEN distance_traveled + delta ELSE distance_traveled
        end == PathEnd(is_moving, d1)
    IN  /\ Update(i, delta, o1)
        /\ threads' = [threads EXCEPT ![i] = IF end.raises THEN NoThread ELSE AtTop]
        /\ IF ~end.raises /\ end.moving
           THEN /\ yaw_error' = gaze_angle - o1
                /\ Send(movement_mode)
           ELSE UNCHANGED << yaw_error, sent, sent_cmd >>

\* the same iteration up to the call of send_movement_command at line 466:
\* the velocity and yaw_error of lines 457-464 are computed
UpdateDecide(i, delta, o1) ==
    LET d1  == IF is_moving THEN distance_traveled + delta ELSE distance_traveled
        end == PathEnd(is_moving, d1)
    IN  /\ Update(i, delta, o1)
        /\ threads' = [threads EXCEPT ![i] =
                          IF end.raises THEN NoThread
                          ELSE IF end.moving
                               THEN [at |-> "send", vmode |-> movement_mode]
                               ELSE AtTop]
        /\ yaw_error' = IF ~end.raises /\ end.moving THEN gaze_angle - o1
                        ELSE yaw_error
        /\ UNCHANGED << sent, sent_cmd >>

\* the call of send_movement_command at line 466 and the sleep after it
UpdateSend(i) ==
    /\ pc \in MainPcs
    /\ threads[i].at = "send"
    /\ Send(threads[i].vmode)
    /\ threads' = [threads EXCEPT ![i] = AtTop]
    /\ last_op' = "send"
    /\ UNCHANGED << is_moving, is_running, distance_traveled, orientation,
                    gaze_angle, path_planner, update_threads, yaw_error, reached, speed,
                    movement_mode, state_mode, update_thread >>
    /\ UNCHANGED << pc, is_connected, otherVars >>

\* the results the planner can return to one update(), lines 166-177
PlannerInputs ==
    { << delta, o1 >> :
         delta \in PlannerDeltas(path_planner, distance_traveled),
         o1 \in (IF is_moving THEN Orientations(path_planner, orientation, gaze_angle)
                 ELSE {orientation}) }

UpdateLoop ==
    \E i \in ThreadIds : \E pl \in PlannerInputs : UpdateIter(i, pl[1], pl[2])

UpdateCheck ==
    \E i \in ThreadIds : \E pl \in PlannerInputs : UpdateDecide(i, pl[1], pl[2])

UpdateCommand == \E i \in ThreadIds : UpdateSend(i)

\* an update thread finds is_running false and returns
UpdateExit ==
    /\ pc \in MainPcs
    /\ \E i \in ThreadIds :
          /\ threads[i].at = "top"
          /\ threads' = [threads EXCEPT ![i] = NoThread]
    /\ ~is_running
    /\ update_threads' = update_threads - 1
    /\ last_op' = "exit"
    /\ UNCHANGED << is_moving, is_running, distance_traveled, orientation,
                    gaze_angle, path_planner, sent, yaw_error, reached, speed,
                    movement_mode, state_mode, update_thread, sent_cmd >>
    /\ UNCHANGED << pc, is_connected, otherVars >>

\* the controller after connect(); --planner chooses the path planner
InitCtl ==
    /\ pc = "ctl" /\ robot = FALSE /\ exitCause = "none"
    /\ is_connected = TRUE /\ stale = 0 /\ position = 0 /\ key_events = {}
    /\ listener = "off" /\ ctrlc = FALSE /\ cmd_stale = FALSE /\ pub_fails = 0
    /\ exitCmds = 0 /\ exitNonzero = FALSE
    /\ InitLoopVars /\ InitCmdVars
    /\ fn_mode = 0 /\ fn_d = 0 /\ fn_out = -1
    /\ InitVelIdle /\ InitAuxIdle
    /\ is_moving = FALSE /\ is_running = FALSE /\ distance_traveled = 0
    /\ orientation = 0 /\ gaze_angle = 0
    /\ path_planner \in {"straight", "adaptive"}
    /\ update_threads = 0 /\ sent = "none" /\ yaw_error = 0
    /\ reached = FALSE /\ last_op = "none"
    /\ InitCtlThreads

GazeRequest == \E k \in (0 - MaxGazeReq)..MaxGazeReq : SetGaze(2 * k)
StatusMessage ==
    \E d \in 0..MaxCtlDist : \E o \in (1 - HalfTurnDeg)..HalfTurnDeg :
        ~InGap(d) /\ ~InGap(o) /\ ReceiveStatus(d, o)

NextCtl ==
    Start \/ Stop \/ Reset \/ GazeRequest \/ StatusMessage \/ UpdateLoop \/ UpdateExit
SpecCtl == InitCtl /\ [][NextCtl]_vars

----------------------------------------------------------------------------
(* The calls of the unified controller with the straight planner and no     *)
(* status messages.  As in SpecCtl a call and an iteration of the update    *)
(* loop run without another thread in between, except that set_mode can be  *)
(* interrupted between its two assignments.                                 *)

InitCalls ==
    /\ InitCtl
    /\ path_planner = "straight"

SpeedRequest == \E v \in {0 - MaxSpeedReq, 0, MaxSpeedReq} : SetSpeed(v)
ModeRequest == \E m \in {"forward", "rightward"} : SetModeBegin(m)

NextCalls ==
    Start \/ Stop \/ SpeedRequest \/ GazeRequest \/ ModeRequest \/ SetModeEnd
          \/ UpdateLoop \/ UpdateExit
SpecCalls == InitCalls /\ [][NextCalls]_vars

----------------------------------------------------------------------------
(* The unified controller with its calls and its update threads interleaved *)
(* statement by statement: an update thread can be suspended between the    *)
(* is_moving test of line 456 and its send, and stop() waits in join while  *)
(* the threads run.  join returns when the joined thread has ended; its 1 s *)
(* timeout is not reached by a thread whose iteration takes 10 ms.  Speed   *)
(* and gaze keep their initial values.                                      *)

NextThr ==
    Start \/ StopCall \/ ResetCall \/ Disconnect \/ StopEnd \/ Close
          \/ ModeRequest \/ SetModeEnd
          \/ UpdateCheck \/ UpdateCommand \/ UpdateExit
SpecThr == InitCalls /\ [][NextThr]_vars

----------------------------------------------------------------------------
(* Bookkeeping of the commands handed to set_base_velocity.                *)

Last(q) == q[Len(q)]
Record(q) == lastCmd' = IF q = << >> THEN lastCmd ELSE Last(q)

----------------------------------------------------------------------------
(* go2_gait_simulation.main: one iteration of `while True`.                *)

Toggle(m) == IF m = "forward" THEN "leftward" ELSE "forward"

\* a start that leaves initial_pos as it was
SnapshotKept(started, pos, ip) == ip

\* initial_pos after the space key, lines 233-239 (and go2_gait.py 337-344):
\* a start takes the current position, anything else leaves it
Snapshot(started, pos, ip) == IF started THEN pos ELSE ip

\* get_gaze_angle that oscillates whether gaze is enabled or not
get_gaze_angle_always(enabled, osc) == osc

\* get_gaze_angle(current_time), lines 167-172, and the gaze term
\* radians(gaze_angle) * 0.1 built from it, lines 312-316: osc tells whether
\* 15 sin(0.5 t) is zero (0) or not (1)
get_gaze_angle(enabled, osc) == IF ~enabled THEN 0 ELSE osc

\* a mode index that wraps one entry early
NextSpeedModeShort(m) == (m + 1) % (NumModes - 1)

\* current_speed_mode after the s key, lines 256-257 (and go2_gait.py 356):
\* (current_speed_mode + 1) % len(speed_modes)
NextSpeedMode(m) == (m + 1) % Len(speed_modes)

\* a reset that leaves the path mode as it is
ResetModeKept(reset, pm) == pm

\* path_mode after the reset key, line 272 (and go2_gait.py 370):
\* path_mode = 'leftward'
ResetMode(reset, pm) == IF reset THEN "leftward" ELSE pm

\* a loop that keeps walking once an episode has started
WalkingOnceStarted(w, st) == st

\* the test of the walking branch, line 276 (and go2_gait.py 376):
\* is_walking and start_time is not None
Walking(w, st) == w /\ st

\* a message on every tick: STOPPED while the speed is 0, RESUMED otherwise
StopEventLevel(ws, s) == IF s = 0 THEN "STOPPED" ELSE "RESUMED"

\* the message a walking tick prints, lines 293-299 (and go2_gait.py 392-398)
StopEvent(ws, s) ==
    IF s = 0 /\ ~ws THEN "STOPPED"
    ELSE IF s # 0 /\ ws THEN "RESUMED"
    ELSE "none"

\* stop/resume latch, lines 293-299 (and go2_gait.py 392-398)
Latch(ws, s) ==
    IF s = 0 /\ ~ws THEN TRUE
    ELSE IF s # 0 /\ ws THEN FALSE
    ELSE ws

\* the velocity command of a walking tick of the PyBullet loop, lines 302-316:
\* both path modes move along +Y; w is the gaze term of the angular velocity
SimWalkCmd(pm, s, w) ==
    IF pm = "forward" THEN Cmd(0, s, w) ELSE Cmd(0, s, w)

\* path completion tested with > instead of >=
SimCompleteLate(d, w) == IF d > PathLength THEN FALSE ELSE w

\* the tail of a walking tick of the PyBullet loop, lines 329-332
SimComplete(d, w) == IF d >= PathLength THEN FALSE ELSE w

\* p.stepSimulation(): the base keeps the velocity last set on it
Physics(pos, c, step) ==
    IF c.vy > 0 THEN pos + step
    ELSE IF c.vy < 0 THEN pos - step
    ELSE pos

SimTick(keys, gz, step) ==
    LET space   == "space" \in keys
        w_sp    == IF space THEN ~is_walking ELSE is_walking
        started == space /\ w_sp
        st1     == start_time \/ started
        ip1     == Snapshot(started, position, initial_pos)
        ws1     == IF started THEN FALSE ELSE was_stopped
        pm1     == IF "p" \in keys THEN Toggle(path_mode) ELSE path_mode
        sm1     == IF "s" \in keys THEN NextSpeedMode(current_speed_mode)
                   ELSE current_speed_mode
        gz1     == IF "g" \in keys THEN ~gaze_enabled ELSE gaze_enabled
        reset   == "r" \in keys
        pos1    == IF reset THEN 0 ELSE position
        w2      == IF reset THEN FALSE ELSE w_sp
        pm2     == ResetMode(reset, pm1)
        ws2     == IF reset THEN FALSE ELSE ws1
        cmds_r  == IF reset THEN << Zero >> ELSE << >>
        walk    == Walking(w2, st1)
        d       == Abs(pos1 - ip1)
        s       == get_speed(sm1, d)
        w       == get_gaze_angle(gz1, gz)
        cmds    == cmds_r \o (IF walk THEN << SimWalkCmd(pm2, s, w) >> ELSE << Zero >>)
        pos2    == Physics(pos1, Last(cmds), step)
    IN  /\ pc = "loop"
        /\ pos2 \in 0..MaxPos
        /\ is_walking' = IF walk THEN SimComplete(d, w2) ELSE w2
        /\ start_time' = st1
        /\ initial_pos' = ip1
        /\ path_mode' = pm2
        /\ current_speed_mode' = sm1
        /\ gaze_enabled' = gz1
        /\ was_stopped' = IF walk THEN Latch(ws2, s) ELSE ws2
        /\ position' = pos2
        /\ tick' = [kind |-> IF walk THEN "walk" ELSE "idle",
                    w0 |-> is_walking, w1 |-> w2,
                    d |-> IF walk THEN d ELSE 0, s |-> IF walk THEN s ELSE 0,
                    pm |-> pm2, ev |-> IF walk THEN StopEvent(ws2, s) ELSE "none",
                    cmds |-> cmds]
        /\ lastCmd' = Last(cmds)
        /\ UNCHANGED << hwVars, key_events, fnVars, velVars, ctlVars, auxVars >>

\* at most two keys are reported by one p.getKeyboardEvents() call
KeySets == {k \in SUBSET Keys : Cardinality(k) <= 2}

\* the oscillation 15 sin(0.5 t) at the time of a tick is zero (0) or not (1)
GazeTerms == {0, 1}

SimLoop == \E keys \in KeySets : \E gz \in GazeTerms : \E step \in 1..MaxStep :
               SimTick(keys, gz, step)

\* KeyboardInterrupt in the PyBullet loop, lines 342-347: p.disconnect()
SimInterrupt ==
    /\ pc = "loop"
    /\ pc' = "done"
    /\ exitCause' = "KeyboardInterrupt"
    /\ UNCHANGED << robot, is_connected, stale, position, key_events,
                    listener, ctrlc, loopVars, cmd_stale, pub_fails, cmdVars, exitCmds,
                    exitNonzero, fnVars, velVars, ctlVars, auxVars >>

InitFnIdle ==
    /\ fn_mode = 0 /\ fn_d = 0 /\ fn_out = -1
    /\ InitVelIdle /\ InitCtlIdle /\ InitAuxIdle

InitSim ==
    /\ pc = "loop" /\ robot = TRUE /\ exitCause = "none"
    /\ is_connected = TRUE /\ stale = 0 /\ position = 0 /\ key_events = {}
    /\ listener = "off" /\ ctrlc = FALSE /\ cmd_stale = FALSE /\ pub_fails = 0
    /\ exitCmds = 0 /\ exitNonzero = FALSE
    /\ InitLoopVars /\ InitCmdVars /\ InitFnIdle

NextSim == SimLoop \/ SimInterrupt
SpecSim == InitSim /\ [][NextSim]_vars

\* the PyBullet loop while the robot is within MaxKeyPos of the origin: the
\* key handling of lines 231-274 does not look at the position
NearLoop == SimLoop /\ position' \in 0..MaxKeyPos
NextNear == NearLoop \/ SimInterrupt
SpecNear == InitSim /\ [][NextNear]_vars

----------------------------------------------------------------------------
(* go2_gait.py: Go2RealRobot, KeyboardInput and main.                      *)
(* A run of the hardware program has one terminating event: an exception   *)
(* raised inside the try block of main, or one SIGINT delivered to the     *)
(* main thread while it is in the loop.                                    *)

GetSpeedParams == 1     \* def get_speed(self, distance_traveled)
HwSpeedArgs    == 2     \* path_controller.get_speed(distance_traveled, current_time)

\* the call at go2_gait.py line 388: Python raises TypeError when the number of
\* positional arguments differs from the number of parameters
HwSpeedCall(m, d) ==
    IF HwSpeedArgs = GetSpeedParams
    THEN [raises |-> FALSE, value |-> get_speed(m, d)]
    ELSE [raises |-> TRUE, value |-> 0]

\* linear velocity by path mode, lines 406-416; w is the angular z term
HwWalkCmd(pm, s, w) ==
    IF pm = "forward" THEN Cmd(s, 0, w) ELSE Cmd(0, s, w)

\* a watchdog that repeats a walking command
WatchdogCmdsMoving == << Cmd(SpeedOne, 0, 0) >>

\* the connection watchdog, lines 323-328: the commands it passes
WatchdogCmds == << Zero >>

\* the zero command of the path-complete branch, lines 431-434
HwCompleteCmds(d) == IF d >= PathLength THEN << Zero >> ELSE << >>

\* emergency_stop passing a single stop command
emergency_stop_once == << Zero >>

\* emergency_stop, lines 234-239: the commands it passes, one per iteration
emergency_stop == [i \in 1..EStopCount |-> Zero]

\* the finally block passing a moving command instead of the zero command
FinallyCmdsMoving == IF robot THEN << Cmd(0, SpeedOne, 0) >> ELSE << >>

\* the finally block, lines 454-455
FinallyCmds == IF robot THEN << Zero >> ELSE << >>

CountExit(q) ==
    /\ exitCmds' = exitCmds + Len(q)
    /\ exitNonzero' = (exitNonzero \/ \E i \in 1..Len(q) : ~IsZero(q[i]))

\* a main that enters the loop although Go2RealRobot raised
AfterInitAnyway(r, k) == IF r /\ ~k THEN "estop" ELSE "loop"

\* where main goes after lines 283-292: r says that Go2RealRobot(...) returned
\* (it raises when DDS initialisation raises or no state message arrives
\* within 5 s, lines 128-159), k that keyboard.start() returned
AfterInit(r, k) ==
    IF ~r THEN "finally" ELSE IF ~k THEN "estop" ELSE "loop"

\* Go2RealRobot(network_interface), PathController(), keyboard.start(), lines 283-292
HwInit ==
    /\ pc = "start"
    /\ \E r \in BOOLEAN, k \in BOOLEAN :
          /\ r \/ k
          /\ robot' = r /\ is_connected' = r
          /\ listener' = IF r /\ k THEN "running" ELSE "off"
          /\ pc' = AfterInit(r, k)
          /\ exitCause' = IF r /\ k THEN "none" ELSE "Exception"
    /\ position' \in 0..MaxHwPos
    /\ UNCHANGED << stale, key_events, ctrlc, loopVars, cmd_stale, pub_fails, cmdVars,
                    exitCmds, exitNonzero, fnVars, velVars, ctlVars, auxVars >>

\* monitor_state, lines 163-180: one iteration of the monitor thread
MonitorRead ==
    /\ robot /\ pc \in {"loop", "estop", "finally"}
    /\ \/ /\ position' \in 0..MaxHwPos       \* Read() returned a message
          /\ is_connected' = TRUE
          /\ stale' = 0
       \/ /\ stale' = Min(stale + 1, MaxStale)   \* Read() returned None
          /\ UNCHANGED << position, is_connected >>
       \/ /\ is_connected' = FALSE           \* Read() raised
          /\ stale' = Min(stale + 1, MaxStale)
          /\ UNCHANGED position
    /\ (position' # position \/ is_connected' # is_connected \/ stale' # stale)
    /\ UNCHANGED << pc, robot, exitCause, key_events, listener, ctrlc,
                    loopVars, cmd_stale, pub_fails, cmdVars, exitCmds, exitNonzero, fnVars, velVars, ctlVars, auxVars >>

\* _keyboard_listener, lines 77-103: a key of the controls is read and recorded
ListenerKeyIn(K) ==
    /\ listener = "running" /\ pc = "loop"
    /\ \E k \in K : k \notin key_events /\ key_events' = key_events \cup {k}
    /\ UNCHANGED << pc, robot, exitCause, is_connected, stale, position,
                    listener, ctrlc, loopVars, cmd_stale, pub_fails, cmdVars, exitCmds,
                    exitNonzero, fnVars, velVars, ctlVars, auxVars >>

ListenerKey == ListenerKeyIn(Keys)

\* _keyboard_listener, lines 98-106: byte 0x03 is read; KeyboardInterrupt is raised
\* in the listener thread and ends that thread
ListenerCtrlC ==
    /\ listener = "running" /\ pc = "loop"
    /\ listener' = "dead"
    /\ ctrlc' = TRUE
    /\ UNCHANGED << pc, robot, exitCause, is_connected, stale, position,
                    key_events, loopVars, cmd_stale, pub_fails, cmdVars, exitCmds, exitNonzero,
                    fnVars, velVars, ctlVars, auxVars >>

\* a set_base_velocity that lets the exception of Write through
PublishRaisesThrough(cmds, ok) == cmds # << >> /\ ~ok

\* set_base_velocity, lines 185-217: the whole body is inside try, and the
\* except clause at 216-217 prints and returns, so no call raises
PublishRaises(cmds, ok) == FALSE

\* set_base_velocity, lines 213-217: consecutive Write calls that raised, after
\* a tick that passed cmds with Write succeeding (ok) or raising
Failures(n, cmds, ok) ==
    IF cmds = << >> THEN n
    ELSE IF ok THEN 0 ELSE Min(n + Len(cmds), MaxFails)

\* set_base_velocity, line 214, and the heartbeat test at line 331:
\* last_cmd_time is set only after a Write that returned, so after a failed
\* tick the last command is as old as before or has passed 0.5 s
LastCmdStale(st, cmds, ok) ==
    IF cmds = << >> THEN {st} ELSE IF ok THEN {FALSE} ELSE {st, TRUE}

\* one iteration of the main control loop, lines 319-440; ok says whether the
\* Write calls of this iteration return
HwTick(yaw, ok) ==
    /\ pc = "loop"
    /\ IF ~is_connected
       THEN /\ is_walking' = FALSE
            /\ tick' = [kind |-> "watchdog", w0 |-> is_walking, w1 |-> FALSE,
                        d |-> 0, s |-> 0, pm |-> path_mode, ev |-> "none",
                        cmds |-> WatchdogCmds]
            /\ Record(WatchdogCmds)
            /\ cmd_stale' = TRUE
            /\ pub_fails' = Failures(pub_fails, WatchdogCmds, ok)
            /\ pc' = IF PublishRaises(WatchdogCmds, ok) THEN "estop" ELSE pc
            /\ exitCause' = IF PublishRaises(WatchdogCmds, ok) THEN "Exception"
                            ELSE exitCause
            /\ UNCHANGED << key_events, path_mode, start_time,
                            initial_pos, current_speed_mode, gaze_enabled,
                            was_stopped >>
       ELSE LET keys    == key_events
                hb      == IF cmd_stale THEN << Zero >> ELSE << >>
                space   == "space" \in keys
                w_sp    == IF space THEN ~is_walking ELSE is_walking
                started == space /\ w_sp
                st1     == start_time \/ started
                ip1     == Snapshot(started, position, initial_pos)
                ws1     == IF started THEN FALSE ELSE was_stopped
                cmds_sp == IF space /\ ~w_sp THEN << Zero >> ELSE << >>
                pm1     == IF "p" \in keys THEN Toggle(path_mode) ELSE path_mode
                sm1     == IF "s" \in keys THEN NextSpeedMode(current_speed_mode)
                           ELSE current_speed_mode
                gz1     == IF "g" \in keys THEN ~gaze_enabled ELSE gaze_enabled
                reset   == "r" \in keys
                w2      == IF reset THEN FALSE ELSE w_sp
                pm2     == ResetMode(reset, pm1)
                ws2     == IF reset THEN FALSE ELSE ws1
                cmds_r  == IF reset THEN << Zero >> ELSE << >>
                pre     == hb \o cmds_sp \o cmds_r
                walk    == Walking(w2, st1)
                d       == Abs(position - ip1)
                call    == HwSpeedCall(sm1, d)
                s       == call.value
                cmds    == IF ~walk THEN pre \o << Zero >>
                           ELSE IF call.raises THEN pre
                           ELSE pre \o << HwWalkCmd(pm2, s, yaw) >> \o HwCompleteCmds(d)
            IN  /\ key_events' = {}
                /\ start_time' = st1
                /\ initial_pos' = ip1
                /\ path_mode' = pm2
                /\ current_speed_mode' = sm1
                /\ gaze_enabled' = gz1
                /\ is_walking' = IF walk /\ ~call.raises /\ d >= PathLength
                                 THEN FALSE ELSE w2
                /\ was_stopped' = IF walk /\ ~call.raises THEN Latch(ws2, s) ELSE ws2
                /\ pc' = IF (walk /\ call.raises) \/ PublishRaises(cmds, ok)
                         THEN "estop" ELSE "loop"
                /\ exitCause' = IF (walk /\ call.raises) \/ PublishRaises(cmds, ok)
                                THEN "Exception" ELSE exitCause
                /\ tick' = [kind |-> IF ~walk THEN "idle"
                                     ELSE IF call.raises THEN "error" ELSE "walk",
                            w0 |-> is_walking, w1 |-> w2,
                            d |-> IF walk THEN d ELSE 0,
                            s |-> IF walk THEN s ELSE 0,
                            pm |-> pm2,
                            ev |-> IF walk /\ ~call.raises THEN StopEvent(ws2, s)
                                   ELSE "none",
                            cmds |-> cmds]
                /\ Record(cmds)
                /\ cmd_stale' \in LastCmdStale(cmd_stale, cmds, ok)
                /\ pub_fails' = Failures(pub_fails, cmds, ok)
    /\ UNCHANGED << robot, is_connected, stale, position, listener, ctrlc,
                    exitCmds, exitNonzero, fnVars, velVars, ctlVars, auxVars >>

\* the loop on a link on which every Write succeeds
HwLoop == \E yaw \in {0} : HwTick(yaw, TRUE)

\* SIGINT delivered to the main thread in the loop: except KeyboardInterrupt, line 442
HwInterrupt ==
    /\ pc = "loop"
    /\ pc' = "estop"
    /\ exitCause' = "KeyboardInterrupt"
    /\ UNCHANGED << robot, is_connected, stale, position, key_events,
                    listener, ctrlc, loopVars, cmd_stale, pub_fails, cmdVars, exitCmds,
                    exitNonzero, fnVars, velVars, ctlVars, auxVars >>

\* the handlers at lines 442-450 with a robot present: robot.emergency_stop()
EStop ==
    /\ pc = "estop"
    /\ pc' = "finally"
    /\ tick' = [NoTick EXCEPT !.kind = "estop", !.cmds = emergency_stop]
    /\ Record(emergency_stop)
    /\ CountExit(emergency_stop)
    /\ UNCHANGED << robot, exitCause, is_connected, stale, position, key_events,
                    listener, ctrlc, loopVars, cmd_stale, pub_fails, fnVars, velVars, ctlVars, auxVars >>

\* the finally block, lines 452-459
Finally ==
    /\ pc = "finally"
    /\ pc' = "done"
    /\ listener' = IF listener = "running" THEN "off" ELSE listener
    /\ tick' = [NoTick EXCEPT !.kind = "finally", !.cmds = FinallyCmds]
    /\ Record(FinallyCmds)
    /\ CountExit(FinallyCmds)
    /\ UNCHANGED << robot, exitCause, is_connected, stale, position,
                    key_events, ctrlc, loopVars, cmd_stale, pub_fails, fnVars, velVars, ctlVars, auxVars >>

InitHw ==
    /\ pc = "start" /\ robot = FALSE /\ exitCause = "none"
    /\ is_connected = FALSE /\ stale = 0 /\ position = 0 /\ key_events = {}
    /\ listener = "off" /\ ctrlc = FALSE /\ cmd_stale = FALSE /\ pub_fails = 0
    /\ exitCmds = 0 /\ exitNonzero = FALSE
    /\ InitLoopVars /\ InitCmdVars /\ InitFnIdle

MainStep == HwInit \/ HwLoop \/ EStop \/ Finally
NextHw == MainStep \/ HwInterrupt \/ MonitorRead \/ ListenerKey \/ ListenerCtrlC
SpecHw == InitHw /\ [][NextHw]_vars
\* the main thread keeps running: the operating system schedules it
FairSpecHw == SpecHw /\ WF_vars(MainStep)

----------------------------------------------------------------------------
(* The hardware loop on a link on which cmd_publisher.Write can raise.  The *)
(* operator uses the start/stop, path and reset keys only; the Write calls *)
(* of the handlers after the loop are taken to return.                     *)

PubKeys == {"space", "p", "r"}
PubLoop == \E ok \in BOOLEAN : HwTick(0, ok)
PubListenerKey == ListenerKeyIn(PubKeys)
PubMainStep == HwInit \/ PubLoop \/ EStop \/ Finally
NextPub == PubMainStep \/ HwInterrupt \/ MonitorRead \/ PubListenerKey
SpecPub == InitHw /\ [][NextPub]_vars

----------------------------------------------------------------------------
(* One walking episode of the PyBullet loop with no operator key after the *)
(* start key.  The loop runs for as long as the process lives.             *)

InitEpisode ==
    /\ pc = "loop" /\ robot = TRUE /\ exitCause = "none"
    /\ is_connected = TRUE /\ stale = 0 /\ position = 0 /\ key_events = {}
    /\ listener = "off" /\ ctrlc = FALSE /\ cmd_stale = FALSE /\ pub_fails = 0
    /\ exitCmds = 0 /\ exitNonzero = FALSE
    /\ is_walking = FALSE /\ start_time = FALSE /\ initial_pos = 0
    /\ was_stopped = FALSE
    /\ path_mode \in {"forward", "leftward"}
    /\ current_speed_mode \in 0..(NumModes - 1)
    /\ gaze_enabled \in BOOLEAN
    /\ InitCmdVars /\ InitFnIdle

EpisodeStart ==
    /\ tick.kind = "none"
    /\ \E gz \in GazeTerms : \E step \in 1..MaxStep :
           SimTick({"space"}, gz, step)

EpisodeTick ==
    /\ tick.kind # "none"
    /\ \E gz \in GazeTerms : \E step \in 1..MaxStep : SimTick({}, gz, step)

NextEpisode == EpisodeStart \/ EpisodeTick
SpecEpisode == InitEpisode /\ [][NextEpisode]_vars
FairSpecEpisode == SpecEpisode /\ WF_vars(NextEpisode)

----------------------------------------------------------------------------
(* KeyboardInput, go2_gait.py 60-114: the listener thread records key codes *)
(* in the dictionary key_events while the main thread runs get_keys.  The   *)
(* dictionary maps every recorded code to 3, so it is the set of its keys.  *)
(* get_keys is two statements with no lock; the listener can run between    *)
(* them.  gk.owed holds the codes recorded and not yet part of a result.    *)
(* To the main loop a code that is dropped is a key that was never pressed, *)
(* so the loop itself takes the recorded codes in one step.                 *)

InitKeys ==
    /\ pc = "keys" /\ robot = FALSE /\ exitCause = "none"
    /\ is_connected = FALSE /\ stale = 0 /\ position = 0 /\ key_events = {}
    /\ listener = "running" /\ ctrlc = FALSE /\ cmd_stale = FALSE /\ pub_fails = 0
    /\ exitCmds = 0 /\ exitNonzero = FALSE
    /\ InitLoopVars /\ InitCmdVars /\ InitFnIdle

\* line 108: self.key_events[key_code] = 3
KeysRecord(k) ==
    /\ pc = "keys" /\ listener = "running"
    /\ key_events' = key_events \cup {k}
    /\ gk' = [gk EXCEPT !.owed = @ \cup {k}]
    /\ UNCHANGED << pc, robot, exitCause, is_connected, stale, position,
                    listener, ctrlc, loopVars, cmd_stale, pub_fails, cmdVars,
                    exitCmds, exitNonzero, fnVars, velVars, ctlVars,
                    cli, trial, sdk >>

\* line 112: keys = self.key_events.copy()
GetKeysCopy ==
    /\ pc = "keys" /\ gk.at = "idle"
    /\ gk' = [gk EXCEPT !.at = "copied", !.keys = key_events]
    /\ UNCHANGED << pc, robot, exitCause, is_connected, stale, position,
                    key_events, listener, ctrlc, loopVars, cmd_stale, pub_fails,
                    cmdVars, exitCmds, exitNonzero, fnVars, velVars, ctlVars,
                    cli, trial, sdk >>

\* lines 113-114: self.key_events.clear(); return keys
GetKeysClear ==
    /\ pc = "keys" /\ gk.at = "copied"
    /\ key_events' = {}
    /\ gk' = [gk EXCEPT !.at = "idle", !.keys = {}, !.result = gk.keys,
                        !.owed = @ \ gk.keys]
    /\ UNCHANGED << pc, robot, exitCause, is_connected, stale, position,
                    listener, ctrlc, loopVars, cmd_stale, pub_fails, cmdVars,
                    exitCmds, exitNonzero, fnVars, velVars, ctlVars,
                    cli, trial, sdk >>

KeysListener == \E k \in Keys : KeysRecord(k)
NextKeys == KeysListener \/ GetKeysCopy \/ GetKeysClear
SpecKeys == InitKeys /\ [][NextKeys]_vars

----------------------------------------------------------------------------
(* pyCLI.py: Go2Controller and the commands of the go2> prompt.  Speeds are *)
(* counted in 0.1 m/s and gaze angles in units of 15 degrees.  A mode is a  *)
(* member of the enum MovementMode ("FORWARD", "RIGHTWARD") or, when a      *)
(* caller passes one, a plain string; only an enum member has .value, on    *)
(* anything else the attribute access raises AttributeError.  A controller  *)
(* is a record; cmds holds the dictionaries the operation in progress has   *)
(* passed to send_command, moved the most recent of start_movement,         *)
(* stop_movement and reset_position, err the exception that left the        *)
(* operation.  send_command (lines 56-62) prints a socket error and returns.*)

CliSpeedMin  == 1       \* 0.1 m/s, line 109
CliSpeedMax  == 20      \* 2.0 m/s, line 109
CliSpeedInit == 5       \* self.speed = 0.5, line 28
CliGazeMax   == 6       \* 90 degrees, line 123

MovementModes == {"FORWARD", "RIGHTWARD"}
ModeValue(m) == IF m = "FORWARD" THEN "forward" ELSE "rightward"
HasValue(m) == m \in MovementModes
Raise(c) == [c EXCEPT !.err = "AttributeError"]

\* Go2Controller.__init__, lines 27-31
NewController ==
    [speed |-> CliSpeedInit, mode |-> "FORWARD", gaze_angle |-> 0,
     is_moving |-> FALSE, cmds |-> << >>, moved |-> "none", err |-> "none"]

\* the dictionary built by the four senders; flag is the key set to True
Command(c, sp, flag) ==
    [speed |-> sp, mode |-> ModeValue(c.mode), gazeAngle |-> c.gaze_angle,
     start |-> flag = "start", stop |-> flag = "stop", reset |-> flag = "reset"]

send_command(c, cmd) == [c EXCEPT !.cmds = Append(@, cmd)]

\* lines 64-77
start_movement(c) ==
    IF c.err # "none" THEN c
    ELSE LET c1 == [c EXCEPT !.is_moving = TRUE, !.moved = "start"] IN
         IF ~HasValue(c1.mode) THEN Raise(c1)
         ELSE send_command(c1, Command(c1, c1.speed, "start"))

\* lines 79-91
stop_movement(c) ==
    IF c.err # "none" THEN c
    ELSE LET c1 == [c EXCEPT !.is_moving = FALSE, !.moved = "stop"] IN
         IF ~HasValue(c1.mode) THEN Raise(c1)
         ELSE send_command(c1, Command(c1, 0, "stop"))

\* a reset that leaves is_moving as it is
reset_position_moving(c) ==
    IF c.err # "none" THEN c
    ELSE LET c1 == [c EXCEPT !.moved = "reset"] IN
         IF ~HasValue(c1.mode) THEN Raise(c1)
         ELSE send_command(c1, Command(c1, 0, "reset"))

\* lines 93-105
reset_position(c) ==
    IF c.err # "none" THEN c
    ELSE LET c1 == [c EXCEPT !.is_moving = FALSE, !.moved = "reset"] IN
         IF ~HasValue(c1.mode) THEN Raise(c1)
         ELSE send_command(c1, Command(c1, 0, "reset"))

\* an update that sends the start flag again
update_movement_restart(c) ==
    IF ~HasValue(c.mode) THEN Raise(c)
    ELSE send_command(c, Command(c, c.speed, "start"))

\* lines 128-138
update_movement(c) ==
    IF ~HasValue(c.mode) THEN Raise(c)
    ELSE send_command(c, Command(c, c.speed, "none"))

\* Go2Controller.set_speed, lines 107-112
cli_set_speed(c, v) ==
    IF c.err # "none" THEN c
    ELSE LET c1 == [c EXCEPT !.speed = Clamp(CliSpeedMin, CliSpeedMax, v)] IN
         IF c1.is_moving THEN update_movement(c1) ELSE c1

\* lines 114-119; the print at line 119 reads mode.value
set_mode(c, m) ==
    IF c.err # "none" THEN c
    ELSE LET c1 == [c EXCEPT !.mode = m]
             c2 == IF c1.is_moving THEN update_movement(c1) ELSE c1
         IN  IF c2.err = "none" /\ ~HasValue(m) THEN Raise(c2) ELSE c2

\* lines 121-126
set_gaze_angle(c, a) ==
    IF c.err # "none" THEN c
    ELSE LET c1 == [c EXCEPT !.gaze_angle = Clamp(0 - CliGazeMax, CliGazeMax, a)] IN
         IF c1.is_moving THEN update_movement(c1) ELSE c1

\* the presets of run_preset, lines 177-220
PresetNames == {"baseline", "slow_forward", "fast_forward", "rightward_facing",
                "rightward_glancing", "approach_direct", "approach_averted"}
presets ==
    [n \in PresetNames |->
        CASE n = "baseline"           -> [speed |-> 5,  mode |-> "FORWARD",   gaze |-> 0]
          [] n = "slow_forward"       -> [speed |-> 3,  mode |-> "FORWARD",   gaze |-> 0]
          [] n = "fast_forward"       -> [speed |-> 10, mode |-> "FORWARD",   gaze |-> 0]
          [] n = "rightward_facing"   -> [speed |-> 5,  mode |-> "RIGHTWARD", gaze |-> 0]
          [] n = "rightward_glancing" -> [speed |-> 5,  mode |-> "RIGHTWARD", gaze |-> 2]
          [] n = "approach_direct"    -> [speed |-> 4,  mode |-> "FORWARD",   gaze |-> 0]
          [] n = "approach_averted"   -> [speed |-> 4,  mode |-> "FORWARD",   gaze |-> 3]]

\* run_preset(controller, preset_name), lines 175-238
run_preset(c, name) ==
    IF name \notin DOMAIN presets THEN c
    ELSE LET preset == presets[name] IN
         start_movement(
             set_gaze_angle(
                 set_mode(
                     cli_set_speed(reset_position(c), preset.speed),
                     preset.mode),
                 preset.gaze))

\* the controller of main with the last command line: op is the operation it
\* called, preset the name given to run, was_moving is_moving before it
NoLine == [at |-> "ready", op |-> "none", preset |-> "none", was_moving |-> FALSE]
Line(op, name) ==
    [at |-> "ready", op |-> op, preset |-> name, was_moving |-> cli.is_moving]
Ctl(x) == [f \in DOMAIN NewController |-> x[f]]
\* the controller as a new call finds it: nothing passed to send_command yet
\* and no exception on its way
Fresh(x) == [Ctl(x) EXCEPT !.cmds = << >>, !.err = "none"]
With(c, line) == [f \in DOMAIN c \cup DOMAIN line |->
                     IF f \in DOMAIN c THEN c[f] ELSE line[f]]

\* one command line of main, lines 257-293, on the controller x
CliCall(op, name, c) ==
    /\ pc = "cli" /\ cli.at = "ready"
    /\ cli' = With(c, Line(op, name))
    /\ UNCHANGED << pc, robot, exitCause, is_connected, stale, position,
                    key_events, listener, ctrlc, loopVars, cmd_stale, pub_fails,
                    cmdVars, exitCmds, exitNonzero, fnVars, velVars, ctlVars,
                    gk, trial, sdk >>

CliStart == CliCall("start", "none", start_movement(Fresh(cli)))
CliStop  == CliCall("stop", "none", stop_movement(Fresh(cli)))
CliReset == CliCall("reset", "none", reset_position(Fresh(cli)))
CliSpeed ==
    \E v \in {0, 3, MaxCliSpeedReq} :
        CliCall("set_speed", "none", cli_set_speed(Fresh(cli), v))
CliMode ==
    \E m \in MovementModes : CliCall("set_mode", "none", set_mode(Fresh(cli), m))
CliGaze ==
    \E a \in {0 - MaxCliGazeReq, 0 - 2, 0, MaxCliGazeReq} :
        CliCall("set_gaze_angle", "none", set_gaze_angle(Fresh(cli), a))
CliRun ==
    \E name \in PresetNames \cup {"unknown"} :
        CliCall("run_preset", name, run_preset(Fresh(cli), name))

\* quit: the finally clause of main, lines 300-303
CliQuit ==
    /\ pc = "cli" /\ cli.at = "ready"
    /\ cli' = [With(stop_movement(Fresh(cli)), Line("quit", "none"))
                  EXCEPT !.at = "closed"]
    /\ UNCHANGED << pc, robot, exitCause, is_connected, stale, position,
                    key_events, listener, ctrlc, loopVars, cmd_stale, pub_fails,
                    cmdVars, exitCmds, exitNonzero, fnVars, velVars, ctlVars,
                    gk, trial, sdk >>

InitCli ==
    /\ pc = "cli" /\ robot = FALSE /\ exitCause = "none"
    /\ is_connected = FALSE /\ stale = 0 /\ position = 0 /\ key_events = {}
    /\ listener = "off" /\ ctrlc = FALSE /\ cmd_stale = FALSE /\ pub_fails = 0
    /\ exitCmds = 0 /\ exitNonzero = FALSE
    /\ InitLoopVars /\ InitCmdVars
    /\ fn_mode = 0 /\ fn_d = 0 /\ fn_out = -1
    /\ InitVelIdle /\ InitCtlIdle
    /\ gk = NoGetKeys /\ trial = NoTrial /\ sdk = NoSdk
    /\ cli = With(NewController, NoLine)

NextCli ==
    CliStart \/ CliStop \/ CliReset \/ CliSpeed \/ CliMode \/ CliGaze
             \/ CliRun \/ CliQuit
SpecCli == InitCli /\ [][NextCli]_vars

----------------------------------------------------------------------------
(* protocolManager.py: TrialRunner on a Go2Controller of pyCLI.py, the only *)
(* class of the repository with the six methods run_next_trial calls.  The  *)
(* trial sequence is the shuffled product of the 12 markers and the 10      *)
(* conditions; the trial at the current index can carry any condition.  A   *)
(* condition holds its movement mode as a plain string (lines 88-104), and  *)
(* run_next_trial passes it to set_mode as it is.                           *)

NumMarkers    == 12     \* 4 distances x 3 positions, lines 72-85
NumConditions == 10     \* conditions_config, lines 89-106
NumTrials     == NumMarkers * NumConditions

\* conditions_config, lines 89-106: speed in 0.1 m/s, gaze in 15 degrees
conditions_config ==
    << [speed |-> 5,  mode |-> "forward",   gaze |-> 0],
       [speed |-> 3,  mode |-> "forward",   gaze |-> 0],
       [speed |-> 10, mode |-> "forward",   gaze |-> 0],
       [speed |-> 5,  mode |-> "forward",   gaze |-> 2],
       [speed |-> 5,  mode |-> "forward",   gaze |-> 0 - 2],
       [speed |-> 5,  mode |-> "rightward", gaze |-> 0],
       [speed |-> 5,  mode |-> "rightward", gaze |-> 3],
       [speed |-> 3,  mode |-> "rightward", gaze |-> 0],
       [speed |-> 4,  mode |-> "forward",   gaze |-> 0],
       [speed |-> 4,  mode |-> "forward",   gaze |-> 3] >>

\* TrialRunner.__init__, lines 229-234; results is len(protocol.results),
\* calls the controller methods the last run_next_trial entered, ret what it
\* returned or raised
NewRunner ==
    [at |-> "new", index |-> 0, n |-> 0, results |-> 0, calls |-> << >>,
     op |-> "none", ret |-> "none"]

\* the methods entered when the controller went from c0 through the calls
\* named in ops with the results in cs: a call is entered when every call
\* before it returned
Entered(ops, cs) ==
    LET k == Cardinality({i \in 1..Len(cs) : cs[i].err = "none"})
    IN  SubSeq(ops, 1, Min(Len(ops), k + 1))

TrialCalls ==
    << "reset_position", "set_speed", "set_mode", "set_gaze_angle",
       "start_movement", "stop_movement" >>

\* the controller after the calls of run_next_trial, lines 264-281, for the
\* trial condition t
TrialSteps(c, t) ==
    LET c1 == reset_position(c)
        c2 == cli_set_speed(c1, t.speed)
        c3 == set_mode(c2, t.mode)
        c4 == set_gaze_angle(c3, t.gaze)
        c5 == start_movement(c4)
        c6 == stop_movement(c5)
    IN  << c1, c2, c3, c4, c5, c6 >>

\* run_next_trial, lines 245-301, on the runner r
run_next_trial(r, cs) ==
    IF r.index >= r.n
    THEN [r EXCEPT !.calls = << >>, !.op = "run_next_trial", !.ret = "False"]
    ELSE IF cs[Len(cs)].err # "none"
    THEN [r EXCEPT !.calls = Entered(TrialCalls, cs), !.op = "run_next_trial",
                   !.ret = cs[Len(cs)].err]
    ELSE [r EXCEPT !.calls = Entered(TrialCalls, cs), !.op = "run_next_trial",
                   !.ret = "True", !.results = @ + 1, !.index = @ + 1]

trialFrame == << pc, robot, exitCause, is_connected, stale, position,
                 key_events, listener, ctrlc, loopVars, cmd_stale, pub_fails,
                 cmdVars, exitCmds, exitNonzero, fnVars, velVars, ctlVars,
                 gk, sdk >>

\* setup_participant, lines 236-243
TrialSetup ==
    /\ pc = "trial" /\ trial.at = "new"
    /\ trial' = [trial EXCEPT !.at = "ready", !.n = NumTrials, !.index = 0,
                              !.calls = << >>, !.op = "setup_participant",
                              !.ret = "none"]
    /\ UNCHANGED cli
    /\ UNCHANGED trialFrame

\* `next` at the study> prompt
TrialNext ==
    /\ pc = "trial"
    /\ \E k \in 1..NumConditions :
          LET cs == TrialSteps(Fresh(cli), conditions_config[k]) IN
          /\ trial' = run_next_trial(trial, cs)
          /\ cli' = IF trial.index >= trial.n THEN cli
                    ELSE With(cs[Len(cs)], Line("run_next_trial", "none"))
    /\ UNCHANGED trialFrame

\* skip_trial, lines 303-307
TrialSkip ==
    /\ pc = "trial"
    /\ trial' = [trial EXCEPT
                    !.index = IF trial.index < trial.n THEN @ + 1 ELSE @,
                    !.calls = << >>, !.op = "skip_trial", !.ret = "none"]
    /\ UNCHANGED cli
    /\ UNCHANGED trialFrame

InitTrial ==
    /\ pc = "trial" /\ robot = FALSE /\ exitCause = "none"
    /\ is_connected = FALSE /\ stale = 0 /\ position = 0 /\ key_events = {}
    /\ listener = "off" /\ ctrlc = FALSE /\ cmd_stale = FALSE /\ pub_fails = 0
    /\ exitCmds = 0 /\ exitNonzero = FALSE
    /\ InitLoopVars /\ InitCmdVars
    /\ fn_mode = 0 /\ fn_d = 0 /\ fn_out = -1
    /\ InitVelIdle /\ InitCtlIdle
    /\ gk = NoGetKeys /\ sdk = NoSdk
    /\ cli = With(NewController, NoLine)
    /\ trial = NewRunner

NextTrial == TrialSetup \/ TrialNext \/ TrialSkip
SpecTrial == InitTrial /\ [][NextTrial]_vars

----------------------------------------------------------------------------
(* unitree_legged_sdk.py: Go2RobotController.  A motion command is the      *)
(* MotionCommand object at the moment it is passed to send_motion_command:  *)
(* its mode and the signs of velocity[0], velocity[1] and yaw_rate.  The    *)
(* body pose fields are left out; they carry no velocity.  The timed loop   *)
(* of a move runs for duration = distance / speed seconds: not at all when  *)
(* the quotient is not positive, and for a number of iterations the clock   *)
(* decides otherwise.                                                       *)

Sgn(x) == IF x > 0 THEN 1 ELSE IF x < 0 THEN 0 - 1 ELSE 0
MotionCommand(m, vx, vy, yr) == [mode |-> m, vx |-> vx, vy |-> vy, yaw_rate |-> yr]
NoMotion == [mode |-> 0 - 1, vx |-> 0, vy |-> 0, yaw_rate |-> 0]

\* _init_real_robot, lines 40-48: Go2Robot() or robot.init() can raise; the
\* except clause switches the mode and leaves self.robot as it is by then
InitReal(ctor_ok, init_ok) ==
    [mode  |-> IF ctor_ok /\ init_ok THEN "real_robot" ELSE "simulation",
     robot |-> ctor_ok]

\* __init__, lines 28-38
NewSdk(mode, available, ctor_ok, init_ok) ==
    LET r == IF mode = "real_robot" /\ available THEN InitReal(ctor_ok, init_ok)
             ELSE [mode |-> mode, robot |-> FALSE]
    IN  [at |-> "idle", mode |-> r.mode, robot |-> r.robot, op |-> "none",
         ret |-> "none", cmd |-> NoMotion, left |-> 0, n |-> 0, last |-> NoMotion]

\* the guard of every method: self.mode == RobotMode.REAL_ROBOT and self.robot
Real(x) == x.mode = "real_robot" /\ x.robot

\* a last command that leaves the velocity as it was in the loop
StopCommandKept(c) == c

\* lines 67-69 and 121-124: velocity = [0, 0, 0] (and yaw_rate = 0 in
\* move_with_gaze, where move_straight has set it to 0 before)
StopCommand(c) == [c EXCEPT !.vx = 0, !.vy = 0, !.yaw_rate = 0]

\* send_motion_command(c) on the controller x
SendMotion(x, c) == [x EXCEPT !.n = Min(@ + 1, MaxSdkSends + 1), !.last = c]

sdkFrame == << pc, robot, exitCause, is_connected, stale, position,
               key_events, listener, ctrlc, loopVars, cmd_stale, pub_fails,
               cmdVars, exitCmds, exitNonzero, fnVars, velVars, ctlVars,
               gk, cli, trial >>

\* the body of move_straight and move_with_gaze up to the loop: c is the
\* command built, lines 52-60 and 84-106
MoveBegin(op, distance, spd, c) ==
    /\ pc = "sdk" /\ sdk.at = "idle"
    /\ LET x == [sdk EXCEPT !.op = op, !.n = 0, !.last = NoMotion,
                            !.cmd = NoMotion, !.left = 0, !.ret = "none"]
       IN  sdk' = IF ~Real(x) THEN [x EXCEPT !.ret = "returned"]
                  ELSE IF spd = 0 THEN [x EXCEPT !.ret = "ZeroDivisionError"]
                  ELSE [x EXCEPT !.at = "loop", !.cmd = c,
                                 !.left = IF distance * spd > 0
                                          THEN MaxSdkSends ELSE 0]
    /\ UNCHANGED sdkFrame

SdkReq == (0 - 1)..MaxSdkReq

\* move_straight(distance, speed), lines 50-71
MoveStraight ==
    \E distance \in SdkReq : \E spd \in SdkReq :
        MoveBegin("move_straight", distance, spd,
                  MotionCommand(2, Sgn(spd), 0, 0))

\* move_with_gaze(distance, speed, gaze_angle, lateral_movement), lines 73-125
MoveWithGaze ==
    \E distance \in SdkReq : \E spd \in SdkReq : \E gaze \in SdkReq :
    \E lateral \in BOOLEAN :
        MoveBegin("move_with_gaze", distance, spd,
                  IF lateral THEN MotionCommand(2, 0, Sgn(0 - spd), Sgn(gaze))
                  ELSE MotionCommand(2, Sgn(spd), 0, Sgn(gaze)))

\* one iteration of `while time.time() - start_time < duration`, lines 62-65
\* and 108-116
MoveSend ==
    /\ pc = "sdk" /\ sdk.at = "loop" /\ sdk.left > 0
    /\ sdk' = [SendMotion(sdk, sdk.cmd) EXCEPT !.left = @ - 1]
    /\ UNCHANGED sdkFrame

\* the loop ends, on the clock; the stop command is sent and the method returns
MoveStop ==
    /\ pc = "sdk" /\ sdk.at = "loop"
    /\ sdk' = [SendMotion(sdk, StopCommand(sdk.cmd)) EXCEPT
                  !.at = "idle", !.left = 0, !.ret = "returned"]
    /\ UNCHANGED sdkFrame

\* a method that sends one command when the robot is real; the fields of a
\* new MotionCommand that set_posture does not assign are taken as zero
SendOnce(op, c) ==
    /\ pc = "sdk" /\ sdk.at = "idle"
    /\ LET x == [sdk EXCEPT !.op = op, !.n = 0, !.last = NoMotion,
                            !.cmd = NoMotion, !.left = 0, !.ret = "returned"]
       IN  sdk' = IF Real(x) THEN SendMotion(x, c) ELSE x
    /\ UNCHANGED sdkFrame

\* set_posture, lines 127-146
SetPosture == SendOnce("set_posture", MotionCommand(1, 0, 0, 0))

\* emergency_stop, lines 148-156
EmergencyStop == SendOnce("emergency_stop", MotionCommand(0, 0, 0, 0))

InitSdk ==
    /\ pc = "sdk" /\ robot = FALSE /\ exitCause = "none"
    /\ is_connected = FALSE /\ stale = 0 /\ position = 0 /\ key_events = {}
    /\ listener = "off" /\ ctrlc = FALSE /\ cmd_stale = FALSE /\ pub_fails = 0
    /\ exitCmds = 0 /\ exitNonzero = FALSE
    /\ InitLoopVars /\ InitCmdVars
    /\ fn_mode = 0 /\ fn_d = 0 /\ fn_out = -1
    /\ InitVelIdle /\ InitCtlIdle
    /\ gk = NoGetKeys /\ cli = NoCli /\ trial = NoTrial
    /\ \E mode \in {"simulation", "real_robot"} :
       \E available \in BOOLEAN : \E ctor_ok \in BOOLEAN : \E init_ok \in BOOLEAN :
           sdk = NewSdk(mode, available, ctor_ok, init_ok)

NextSdk ==
    MoveStraight \/ MoveWithGaze \/ MoveSend \/ MoveStop \/ SetPosture
                 \/ EmergencyStop
SpecSdk == InitSdk /\ [][NextSdk]_vars

----------------------------------------------------------------------------
(* Claims                                                                  *)

AllZero(q) == \A i \in 1..Len(q) : IsZero(q[i])

\* C1: once the Go2RealRobot object exists, the hardware program ends only
\* after passing commands to set_base_velocity once its loop has ended, all of
\* them zero, so that the last command of the run is the zero command.
C1_ZeroIsLast ==
    (pc = "done" /\ robot) =>
        (exitCmds >= 1 /\ ~exitNonzero /\ IsZero(lastCmd) /\ tick.kind = "finally")

C1_Witness ==
    /\ pc = "done" /\ robot /\ exitCause = "KeyboardInterrupt"
    /\ IsZero(lastCmd) /\ exitCmds = EStopCount + 1

\* C2: a Ctrl+C key press read by the listener thread leads to the main loop
\* having stopped and emergency_stop having run.
C2_CtrlCStops == ctrlc ~> (pc \in {"finally", "done"} /\ exitCmds >= 1)

\* C3: when the loop has ended through one of its handlers with a robot
\* present, emergency_stop has passed at least 5 commands in a row, all zero.
C3_Burst ==
    (robot /\ pc \in {"finally", "done"}) =>
        /\ exitCmds >= 5 /\ ~exitNonzero
        /\ pc = "finally" =>
               (tick.kind = "estop" /\ Len(tick.cmds) >= 5 /\ AllZero(tick.cmds))

C3_Witness ==
    /\ pc = "finally" /\ robot /\ exitCause = "Exception"
    /\ tick.kind = "estop" /\ Len(tick.cmds) >= 5 /\ AllZero(tick.cmds)

C5_StaleDisconnects == (stale >= MaxStale) => ~is_connected

\* C6: at the end of a tick in which walking went from true to false, the last
\* command passed in that tick is the zero command.
C6_ZeroOnStop ==
    (tick.kind \in {"walk", "idle"} /\ tick.w0 /\ ~is_walking) =>
        (tick.cmds # << >> /\ IsZero(Last(tick.cmds)))

\* C7: a hardware tick with the robot connected and walking true after input
\* handling passes a command whose linear part is [s, 0] in forward mode and
\* [0, s] in leftward mode, s being get_speed of the distance of that tick.
C7_WalkingCommand ==
    (tick.kind \in {"walk", "error"}) =>
        LET s == get_speed(current_speed_mode, tick.d) IN
        \E i \in 1..Len(tick.cmds) :
            /\ tick.cmds[i].vx = (IF tick.pm = "forward" THEN s ELSE 0)
            /\ tick.cmds[i].vy = (IF tick.pm = "forward" THEN 0 ELSE s)

\* C8: in every speed mode an episode without operator keys reaches path
\* completion: a walking tick after which walking is false.
C8_EpisodeCompletes == <>(tick.kind = "walk" /\ ~is_walking)

\* C9: in mode 1-3_abrupt a walking tick uses speed 1.0 below 8.0 and 3.0 from
\* 8.0 up, and walking is false after the tick exactly when the distance of
\* the tick has reached the path length.
C9_AbruptAndComplete ==
    (tick.kind = "walk" /\ speed_modes[current_speed_mode + 1] = "1-3_abrupt") =>
        /\ tick.s = (IF tick.d < 16 THEN 15 ELSE 45)
        /\ is_walking <=> (tick.d < 30)

C9_Witness ==
    /\ tick.kind = "walk" /\ speed_modes[current_speed_mode + 1] = "1-3_abrupt"
    /\ tick.d = 30 /\ tick.s = 45 /\ ~is_walking

\* C10: for a distance within the path, get_speed returns a value in [0, 3.0],
\* and 0 exactly in the two stop modes between 8.0 and 8.5.
C10_SpeedRange ==
    (pc = "fn_done" /\ fn_d >= 0 /\ fn_d <= 30) =>
        /\ fn_out >= 0 /\ fn_out <= 45
        /\ (fn_out = 0) <=>
               /\ speed_modes[fn_mode + 1] \in {"1_stop_1", "3_stop_3"}
               /\ fn_d >= 16 /\ fn_d < 17

C10_Witness ==
    /\ pc = "fn_done" /\ speed_modes[fn_mode + 1] = "3_stop_3"
    /\ fn_d = 16 /\ fn_out = 0

\* C11: the speed a walking tick uses to build its command lies within
\* [0, 3.0], whatever the speed mode and the distance of the tick, a distance
\* beyond the path length included.
C11_SpeedBounded ==
    (tick.kind = "walk") => (tick.s >= 0 /\ tick.s <= 45)

\* C12: a tick of the PyBullet loop that turns walking from false to true takes
\* the position of that moment as the start of the episode, sets the start
\* time and clears the stop latch, so the distance of that first tick is zero
\* wherever earlier episodes began or ended.
C12_StartSnapshot ==
    [][ (~is_walking /\ ~tick'.w0 /\ tick'.w1) =>
            /\ initial_pos' = position
            /\ start_time'
            /\ ~was_stopped'
            /\ tick'.kind = "walk" /\ tick'.d = 0 ]_vars

C12_Witness ==
    /\ tick.kind = "walk" /\ ~tick.w0 /\ tick.w1 /\ tick.d = 0
    /\ initial_pos > 0 /\ is_walking /\ ~was_stopped

\* C13: every start() of the unified controller begins the episode with
\* distance_traveled equal to 0, a start() that follows start() and stop()
\* without a reset() included.
C13_StartFromZero ==
    [][ (last_op' = "start") => (distance_traveled' = 0) ]_vars

\* C14: while the controller stays in one episode (is_moving true before and
\* after the step) distance_traveled does not decrease, whatever status
\* messages arrive.
C14_DistanceMonotone ==
    [][ (is_moving /\ is_moving' /\ last_op' \in {"status", "update"}) =>
            (distance_traveled' >= distance_traveled) ]_vars

\* C15: distance_traveled changes only with the pose feedback: an update()
\* of the moving controller, in which no status message is read, does not
\* increase distance_traveled.
C15_OnlyMeasured ==
    [][ (is_moving /\ last_op' = "update") =>
            (distance_traveled' <= distance_traveled) ]_vars

\* C16: once an update() has found distance_traveled >= path_length, the
\* controller is not moving and the last command sent is not a movement
\* command, until the next start().
C16_StopsAtPathEnd ==
    reached => (~is_moving /\ sent # "move")

\* C18: the heading error of every movement command of _update_loop lies
\* within (-180, 180] degrees.
C18_HeadingErrorWrapped ==
    (sent = "move") => (yaw_error > 0 - 4 /\ yaw_error <= 4)

C20_NoGazeNoTurn ==
    (tick.kind = "walk" /\ ~gaze_enabled) =>
        (tick.cmds # << >> /\ Last(tick.cmds).wz = 0)

C20_Witness ==
    /\ tick.kind = "walk" /\ ~gaze_enabled /\ start_time /\ tick.d > 0
    /\ Last(tick.cmds).vy > 0 /\ Last(tick.cmds).wz = 0

\* C19: whatever velocities are requested, the command set_base_velocity
\* writes has |vx| <= 3.5, |vy| <= 3.5 and |yaw rate| <= 2.0, and the yaw
\* correction of the hardware loop lies within [-0.5, 0.5] for every yaw.
C19_CommandLimits ==
    /\ (vel.step = "written") =>
           /\ vel.out.vx >= 0 - 7 /\ vel.out.vx <= 7
           /\ vel.out.vy >= 0 - 7 /\ vel.out.vy <= 7
           /\ vel.out.wz >= 0 - 2000 /\ vel.out.wz <= 2000
    /\ (vel.step \in {"corrected", "written"}) =>
           (vel.corr >= 0 - 500 /\ vel.corr <= 500)

C19_Witness ==
    /\ vel.step = "written"
    /\ vel.x > 7 /\ vel.out.vx = 7
    /\ vel.y < 0 - 7 /\ vel.out.vy = 0 - 7
    /\ vel.w > 2000 /\ vel.out.wz = 2000

\* C21: when Go2RealRobot cannot be constructed, the hardware program never
\* enters its loop, walking never becomes true and no command at all is
\* passed to the robot.
C21_NoLoopWithoutTransport ==
    (pc # "start" /\ ~robot) =>
        /\ pc \in {"finally", "done"}
        /\ ~is_walking /\ ~start_time
        /\ tick.kind \in {"none", "finally"} /\ tick.cmds = << >>
        /\ lastCmd = NoCmd /\ exitCmds = 0 /\ ~exitNonzero

C21_Witness ==
    /\ pc = "done" /\ ~robot /\ exitCause = "Exception"
    /\ ~is_walking /\ lastCmd = NoCmd

\* C22: once three consecutive publish attempts of the hardware loop have
\* failed the controller is faulted: walking is false and stays false until
\* the operator resets.
C22_FaultLatchedAfterFailures ==
    [][ (pc = "loop" /\ pub_fails >= MaxFails /\ "r" \notin key_events)
            => ~is_walking' ]_vars

C24_StopIdempotent ==
    [][ (Stop /\ ~is_moving /\ is_connected) =>
          /\ UNCHANGED << is_moving, is_running, speed, movement_mode,
                          state_mode, gaze_angle, distance_traveled,
                          orientation >>
          /\ sent' = "zero" /\ sent_cmd'.vmode = "none"
          /\ (last_op = "stop") => UNCHANGED vars ]_vars

C24_Witness ==
    /\ last_op = "stop" /\ update_thread = 0 /\ ~is_moving /\ sent = "zero"
    /\ speed = SpeedMax /\ gaze_angle = GazeMax /\ movement_mode = "rightward"

\* C25: while the unified controller is moving, distance_traveled and
\* orientation are changed by update() of the update loop only.
C25_SingleWriter ==
    [][ (is_moving /\ is_moving' /\
         (distance_traveled' # distance_traveled \/ orientation' # orientation))
            => last_op' = "update" ]_vars

\* C27: the movement command of an update-loop iteration is built from one
\* mode: the movement_mode that gave its velocity vector equals the
\* current_state.mode the planner and send_movement_command used.
C27_OneModePerIteration ==
    (sent = "move") => (sent_cmd.vmode = sent_cmd.smode)

\* C28: whatever set_speed and set_gaze are called with, the stored speed is
\* within [0.1, 2.0] and the stored gaze within [-90, 90], and so are the
\* speed and gaze of every command sent.
C28_RangesKept ==
    /\ speed \in SpeedMin..SpeedMax
    /\ gaze_angle \in (0 - GazeMax)..GazeMax
    /\ (sent # "none") =>
          /\ sent_cmd.speed \in SpeedMin..SpeedMax
          /\ sent_cmd.gaze \in (0 - GazeMax)..GazeMax

C28_Witness ==
    /\ sent = "move" /\ sent_cmd.speed = SpeedMax /\ sent_cmd.gaze = 0 - GazeMax
    /\ speed = SpeedMin /\ last_op = "speed"

\* C29: when disconnect() has closed the connection, the last command sent
\* is the zero command.
C29_ZeroLastAtDisconnect ==
    (pc = "closed") => (sent = "zero")

\* C30: from the return of stop() to the next start() the last command sent
\* (the content of RealGo2Controller.cmd) is never a movement command.
C30_QuietAfterStop ==
    (pc = "ctl" /\ ~is_running) => (sent # "move")

\* C31: at most one thread running _update_loop is alive at any time.
C31_SingleUpdateThread ==
    update_threads <= 1 /\ Cardinality({i \in ThreadIds : threads[i].at # "none"}) <= 1

\* C32: a tick of the PyBullet loop in which walking is false after input
\* handling passes at least one command and only zero commands; a command
\* that is not zero is passed only by a tick in which walking is true after
\* input handling.
C32_ZeroWhenNotWalking ==
    (tick.kind \in {"idle", "walk"}) =>
        /\ ~tick.w1 => (tick.cmds # << >> /\ AllZero(tick.cmds))
        /\ \A i \in 1..Len(tick.cmds) : ~IsZero(tick.cmds[i]) => tick.w1

C32_Witness ==
    /\ tick.kind = "idle" /\ tick.w0 /\ ~tick.w1 /\ start_time
    /\ position > initial_pos /\ IsZero(lastCmd)

\* C33: in the hardware loop a tick that starts with walking false and has no
\* space key to process ends with walking false and passes only zero
\* commands, connected or not, so after a watchdog tick neither a
\* reconnection nor any other key brings a nonzero command.
C33_NoResumeWithoutStart ==
    [][ (HwLoop /\ ~is_walking /\ "space" \notin key_events) =>
            /\ ~is_walking'
            /\ tick'.cmds # << >> /\ AllZero(tick'.cmds)
            /\ ~is_connected => tick'.kind = "watchdog" ]_vars

C33_Witness ==
    /\ pc = "loop" /\ tick.kind = "idle" /\ is_connected /\ ~is_walking
    /\ Len(tick.cmds) = 2 /\ AllZero(tick.cmds) /\ ~start_time

\* C34: every key code the listener has recorded and that no get_keys result
\* has contained yet is still held, in key_events or in the copy a running
\* get_keys is about to return: no recorded key code is lost.
C34_NoKeyLost ==
    (pc = "keys") => gk.owed \subseteq (key_events \cup gk.keys)

\* what a tick that processes the reset key together with the keys `keys`
\* leaves behind
ResetEffect(keys) ==
    /\ ~is_walking' /\ path_mode' = "leftward" /\ ~was_stopped'
    /\ tick'.kind = "idle" /\ ~tick'.w1
    /\ tick'.cmds # << >> /\ AllZero(tick'.cmds) /\ IsZero(lastCmd')
    /\ ("s" \notin keys) => current_speed_mode' = current_speed_mode
    /\ ("g" \notin keys) => gaze_enabled' = gaze_enabled

\* C35: a tick of either keyboard loop that processes the reset key 'r' ends
\* with walking false, the path mode 'leftward' and was_stopped false, passes
\* only zero velocity commands (at least one), and leaves the speed mode index
\* and gaze_enabled as they were unless their own keys were pressed in the
\* same tick.
C35_ResetEffect ==
    [][ /\ \A keys \in KeySets : \A gz \in GazeTerms : \A step \in 1..MaxStep :
               ("r" \in keys /\ SimTick(keys, gz, step)) => ResetEffect(keys)
        /\ (is_connected /\ "r" \in key_events /\ HwLoop) => ResetEffect(key_events)
      ]_vars

\* a reset has been processed in a walking tick, away from the start, in
\* forward mode after a p key, with a speed mode and the gaze chosen by the operator
C35_Witness ==
    /\ tick.kind = "idle" /\ tick.w0 /\ ~is_walking /\ tick.cmds = << Zero, Zero >>
    /\ position = 0 /\ initial_pos > 0 /\ path_mode = "leftward"
    /\ current_speed_mode = 3 /\ gaze_enabled /\ start_time

\* the modes get_speed has a branch for, go2_gait_simulation.py 131-163
NamedModes == {"1-3_gradual", "3-1_gradual", "1-3_abrupt", "3-1_abrupt",
               "1_stop_1", "3_stop_3"}

\* the index after six presses of the s key
SixPresses(m) ==
    LET N(x) == NextSpeedMode(x) IN N(N(N(N(N(N(m))))))

\* what a tick that processes no key other than `keys` leaves alone
KeysFrame(keys) ==
    (keys \subseteq {"s", "p", "g"}) =>
        /\ tick'.w1 = is_walking
        /\ initial_pos' = initial_pos
        /\ start_time' = start_time

\* C36: current_speed_mode is always an index 0..5 of speed_modes and names a
\* mode get_speed has a branch for; six presses of 's' lead back to the same
\* index, and a tick in which only 's', 'p' or 'g' are pressed leaves walking
\* (as it is after the input handling), the start-position snapshot and the
\* start time as they were.
C36_SpeedModeCycle ==
    /\ [](/\ current_speed_mode \in 0..5
          /\ current_speed_mode + 1 \in DOMAIN speed_modes
          /\ speed_modes[current_speed_mode + 1] \in NamedModes
          /\ SixPresses(current_speed_mode) = current_speed_mode)
    /\ [][ /\ \A keys \in KeySets : \A gz \in GazeTerms : \A step \in 1..MaxStep :
                  SimTick(keys, gz, step) =>
                      /\ KeysFrame(keys)
                      /\ ("s" \in keys) => current_speed_mode' # current_speed_mode
           /\ (is_connected /\ HwLoop) =>
                  /\ KeysFrame(key_events)
                  /\ ("s" \in key_events) => current_speed_mode' # current_speed_mode
         ]_vars

\* the operator has pressed s five times, p and g while the robot walks on
\* from the snapshot taken at the origin
C36_Witness ==
    /\ tick.kind = "walk" /\ tick.w0 /\ is_walking /\ start_time
    /\ current_speed_mode = 5 /\ path_mode = "forward" /\ gaze_enabled
    /\ initial_pos = 0 /\ position > 0

Flags(cmd) ==
    (IF cmd.start THEN 1 ELSE 0) + (IF cmd.stop THEN 1 ELSE 0)
        + (IF cmd.reset THEN 1 ELSE 0)

\* C37: every command the pyCLI controller sends has at most one of start,
\* stop, reset true; is_moving is true exactly when the most recent of
\* start_movement, stop_movement, reset_position was start_movement; and
\* set_speed, set_mode, set_gaze_angle send one command with the three flags
\* false when is_moving is true and nothing when it is false.
C37_CliCommands ==
    /\ [](/\ \A i \in 1..Len(cli.cmds) : Flags(cli.cmds[i]) <= 1
          /\ cli.is_moving <=> (cli.moved = "start"))
    /\ [][ (cli'.op \in {"set_speed", "set_mode", "set_gaze_angle"}
               /\ (CliSpeed \/ CliMode \/ CliGaze)) =>
              IF cli.is_moving
              THEN /\ Len(cli'.cmds) = 1 /\ Flags(cli'.cmds[1]) = 0
                   /\ cli'.is_moving
              ELSE cli'.cmds = << >> /\ ~cli'.is_moving ]_vars

\* a gaze request of 105 degrees came in while moving rightward and went out
\* as an update carrying 90 degrees
C37_Witness ==
    /\ cli.op = "set_gaze_angle" /\ cli.is_moving /\ cli.moved = "start"
    /\ Len(cli.cmds) = 1 /\ Flags(cli.cmds[1]) = 0
    /\ cli.cmds[1].gazeAngle = CliGazeMax /\ cli.cmds[1].mode = "rightward"

\* C38: run_preset with a known name sends exactly two commands, a reset and
\* then a start carrying the preset's speed, mode and gaze angle, whether the
\* controller was moving or not; with an unknown name it sends nothing and
\* leaves speed, mode, gaze angle and is_moving as they were.
C38_RunPreset ==
    [][ CliRun =>
          IF cli'.preset \in PresetNames
          THEN LET preset == presets[cli'.preset] IN
               /\ Len(cli'.cmds) = 2
               /\ cli'.cmds[1].reset /\ Flags(cli'.cmds[1]) = 1
               /\ cli'.cmds[2].start /\ Flags(cli'.cmds[2]) = 1
               /\ cli'.cmds[2].speed = preset.speed
               /\ cli'.cmds[2].mode = ModeValue(preset.mode)
               /\ cli'.cmds[2].gazeAngle = preset.gaze
          ELSE /\ cli'.cmds = << >>
               /\ cli'.speed = cli.speed /\ cli'.mode = cli.mode
               /\ cli'.gaze_angle = cli.gaze_angle
               /\ cli'.is_moving = cli.is_moving ]_vars

\* a preset was run on a controller that was moving rightward at another gaze
C38_Witness ==
    /\ cli.op = "run_preset" /\ cli.preset = "approach_averted" /\ cli.was_moving
    /\ Len(cli.cmds) = 2 /\ cli.cmds[1].reset /\ cli.cmds[1].mode = "rightward"
    /\ cli.cmds[1].gazeAngle = 0 - CliGazeMax
    /\ cli.cmds[2].start /\ cli.cmds[2].speed = 4 /\ cli.cmds[2].gazeAngle = 3
    /\ cli.is_moving

\* C39: a run_next_trial call with no trial remaining returns False without
\* calling the controller or recording a result; with a trial remaining it
\* calls reset_position, set_speed, set_mode, set_gaze_angle, start_movement,
\* stop_movement in that order, records exactly one result and advances
\* current_trial_index by exactly one.
C39_TrialSequence ==
    [][ (TrialNext /\ trial.at = "ready") =>
          IF trial.index >= trial.n
          THEN /\ trial'.ret = "False" /\ trial'.calls = << >>
               /\ trial'.results = trial.results /\ trial'.index = trial.index
               /\ cli' = cli
          ELSE /\ trial'.calls = TrialCalls
               /\ trial'.results = trial.results + 1
               /\ trial'.index = trial.index + 1 ]_vars

ZeroVelocity(c) == c # NoMotion /\ c.vx = 0 /\ c.vy = 0

\* C40: with the mode REAL_ROBOT and a robot object, whenever move_straight
\* or move_with_gaze has returned, the last command it sent has zero
\* velocity, and emergency_stop has sent a zero-velocity command; with the
\* mode SIMULATION or no robot object, move_straight, move_with_gaze,
\* set_posture and emergency_stop return without having sent a command.
C40_StopLast ==
    (pc = "sdk" /\ sdk.ret = "returned") =>
        IF Real(sdk)
        THEN /\ (sdk.op \in {"move_straight", "move_with_gaze"}) =>
                    sdk.n >= 1 /\ ZeroVelocity(sdk.last) /\ sdk.last.yaw_rate = 0
             /\ (sdk.op = "emergency_stop") => sdk.n = 1 /\ ZeroVelocity(sdk.last)
        ELSE sdk.n = 0 /\ sdk.last = NoMotion

\* a rightward move with gaze on the real robot has returned after its loop
\* ran: the command before the last carried velocity, the last one does not
C40_Witness ==
    /\ pc = "sdk" /\ Real(sdk) /\ sdk.op = "move_with_gaze" /\ sdk.ret = "returned"
    /\ sdk.n = MaxSdkSends + 1 /\ sdk.cmd.vy = 0 - 1 /\ sdk.cmd.yaw_rate = 1
    /\ ZeroVelocity(sdk.last)

====
